---- MODULE Spec2Model ----
(***************************************************************************)
(* Verification model of the market-making engine:                         *)
(*   - RiskManager            (src/src/risk/manager.py)                    *)
(*   - OrderSimulator         (src/src/simulator.py)                       *)
(*   - Simple/SmartMarketMaker quoter loop (src/src/strategy/market_maker.py)*)
(*   - MarketFeed, DataStore, WebSocketConnection, RESTPoller              *)
(*                            (src/src/feed/*.py)                          *)
(* Money is counted in whole dollars, prices in cents, time in seconds.    *)
(***************************************************************************)
EXTENDS Integers, Sequences, FiniteSets, TLC

(***************************************************************************)
(* Bounds of the model                                                     *)
(***************************************************************************)
MaxNow == 60
MaxErrors == 2
MaxEvents == 2
MaxAbsPosition == 2
MaxLoss == 60
MaxGain == 10

\* granularity of the risk clock: time.time() is sampled every RiskClockStep seconds
RiskClockStep == 30

MaxOrders == 4
MaxSimOrders == 2
MaxFeedNow == 75
MaxQueue == 1
MaxGaps == 1
MaxOrphans == 1
MaxResubscribes == 1
MaxReconnectNow == 330

\* granularity of the feed clock, and the time at which the feed is constructed
FeedClockStep == 15
\* the adaptive timer's clock
MaxTimerNow == 45
TimerClockStep == 5
\* the rate limiter's clock, in milliseconds
LimiterStart == 1000
MaxLimiterNow == 1400
LimiterClockStep == 50
\* trades per asset at the API, and the trades one get_trades answer holds
MaxApiTrades == 3
PageSize == 2

Assets == {"t1", "t2"}

\* best bid / best ask of the quoted asset as the feed reports them, in cents
\* (0: that side of the book is missing)
Books == {[bid |-> 48, ask |-> 52], [bid |-> 51, ask |-> 55],
          [bid |-> 44, ask |-> 47], [bid |-> 0, ask |-> 0]}

\* token lists handed to MarketFeed.start
Subscriptions == {<< >>, <<"t1">>}

\* WebSocket frames: a book event for an asset with its sequence number
\* (0: no sequence field), or a frame without event_type
Frames == {[kind |-> "book", asset |-> "t1", seq |-> 1],
           [kind |-> "book", asset |-> "t1", seq |-> 2],
           [kind |-> "book", asset |-> "t2", seq |-> 0],
           [kind |-> "other", asset |-> "t1", seq |-> 0]}

\* realized P&L and fee values fed to record_trade (<< >>: realized_pnl omitted)
PnlInputs == {<< >>, <<-30>>, <<10>>}
FeeInputs == {0, 10}
\* token lists handed to check()
TokenLists == {<< >>, <<"t1">>, <<"t1", "t2">>}
\* spread multipliers handed to set_volatility_multiplier, in tenths
VolMultipliers == {10, 20}

(***************************************************************************)
(* Configuration of the risk manager (constructor arguments)               *)
(***************************************************************************)
max_daily_loss == 50
max_position == 1
max_total_exposure == 1
error_cooldown == 60
max_errors_per_minute == 2
ERROR_WINDOW == 60
ERRORS_MAXLEN == 100

(***************************************************************************)
(* Configuration of the order path and of the quoter (sizes in contracts,  *)
(* prices in cents)                                                        *)
(***************************************************************************)
MIN_ORDER_SIZE == 1
MAX_ORDER_SIZE == 5
MAX_POSITION_PER_MARKET == 2
MM_SPREAD == 4
MM_SIZE == 1
MM_REQUOTE_THRESHOLD == 3
MM_POSITION_LIMIT == 2
DRY_RUN == TRUE

(***************************************************************************)
(* Configuration of the feed (seconds)                                     *)
(***************************************************************************)
stale_threshold == 30
rest_recovery_delay == 30
HEARTBEAT_LIMIT == 45
\* WS_RECONNECT_ATTEMPTS is read from the environment (10 when unset)
WS_RECONNECT_ATTEMPTS == 2
\* the attempt cap when the environment does not set it, and the delays
DEFAULT_RECONNECT_ATTEMPTS == 10
WS_RECONNECT_BASE_DELAY == 1
WS_RECONNECT_MAX_DELAY == 60
\* TimingConfig: intervals in tenths of a second, the volatility threshold in
\* basis points, the durations in seconds
base_interval == 20
fast_interval == 1
sleep_interval == 50
volatility_threshold == 100
volume_spike_ratio == 2
inactivity_threshold == 60
fast_mode_duration == 10
\* RateLimiter(calls_per_second)
calls_per_second == 10
\* ArbitrageDetector: fee_rate in thousandths, thresholds in basis points, the
\* skew of get_quote_adjustment in thousandths of a dollar
fee_rate == 1
min_profit_bps == 20
SKEW_THRESHOLD_BPS == 10
skew == 5
\* "never": TokenData.last_update, _ws_healthy_since and the heartbeat start at 0
Never == 0
\* DataStore._sequence before the first message
NoSequence == -1
\* the asset the quoter makes a market in
token_id == "t1"
\* no order (None)
NoOrder == 0
\* no mid seen yet (None), in half cents
NoMid == 0

VARIABLES
    \* --- RiskManager ---
    enforce,            \* self.enforce
    killed,             \* self._killed
    kill_reason,        \* self._kill_reason
    errors,             \* self._errors: timestamps of recorded errors
    cooldown_until,     \* self._cooldown_until
    daily_pnl,          \* self._daily_pnl
    risk_events,        \* self._risk_events: <<[status, enforced]>>
    limit_mult,         \* self._volatility_multiplier, in tenths
    now,                \* time.time()
    op,                 \* name of the last operation called
    ret,                \* RiskCheck returned by the last check(): [status, reason]
    underlying,         \* RiskCheck produced by _run_checks in the last check()
    \* --- OrderSimulator ---
    orders,             \* self.orders, in insertion order; an order's id is its index
    trades,             \* self.trades
    positions,          \* self._positions
    sim_call,           \* the last call made on the simulator, with what it returned
    \* --- quoter (SimpleMarketMaker / SmartMarketMaker) ---
    pc,                 \* where run() stands
    running,            \* self._running
    shutdown_event,     \* self._shutdown_event.is_set()
    bid_order,          \* self.bid_order
    ask_order,          \* self.ask_order
    last_mid,           \* self.last_mid, in half cents
    q_feed,             \* self.feed: "none", "running" or "stopped"
    end_reason,         \* why run() left its loop
    seen_unhealthy,     \* the last tick found the feed unhealthy and it has not recovered
    \* --- what the quoter reads from its feed ---
    feed_healthy,       \* feed.is_healthy
    book,               \* best bid and ask of token_id in the feed's store
    \* --- MarketFeed ---
    state,              \* self._state
    tokens,             \* self._tokens
    data_source,        \* self._data_source
    ws_healthy_since,   \* self._ws_healthy_since
    message_queue,      \* self._message_queue
    queue_tasks,        \* the _process_queue tasks (see create_task)
    health_tasks,       \* the _health_monitor tasks
    resubscribes,       \* number of _resubscribe tasks created and not yet run
    \* --- DataStore ---
    store,              \* self._data / _sequence / _gap_count, per asset
    last_message,       \* time of the last record_message_received()
    \* --- WebSocketConnection ---
    ws_connected,       \* self._connected
    ws_sock,            \* self._ws is not None
    should_run,         \* self._should_run
    reconnect_count,    \* self._reconnect_count
    ws_task,            \* the receive task: "none", "receiving", "backoff" (in
                        \* _reconnect), "done" (ended after a clean close),
                        \* "failed" (ended after the last reconnect attempt)
                        \* or "crashed" (ended with an exception)
    subscribed,         \* the assets of the last subscription sent on the socket
    processing,         \* the frames a queue worker has taken and applied and
                        \* whose callback has not returned yet
    \* --- RESTPoller ---
    rest_running,       \* self._running
    \* --- MarketMakerPool ---
    pool_markets,       \* self._markets: per token, whether it is in the pool
                        \* and its MarketState.is_active
    market_makers,      \* the keys of self._market_makers
    pool_tasks,         \* self._tasks: per token "none" (no entry) or what the
                        \* task does: "running", "failed", "returned"
    pool_running,       \* self._running
    \* --- a call on a component taken by itself ---
    last_call,          \* the last such call: its name, arguments and result
    \* --- AdaptiveTimer ---
    timer_mode,         \* self._mode
    last_fast_trigger,  \* self._last_fast_trigger
    last_activity,      \* self._last_activity
    \* --- RateLimiter ---
    limiter_last,       \* self._last_call, in milliseconds
    lock_queue,         \* self._lock: its holder, then its waiters in order
    holder_wake,        \* the end of the holder's sleep (0: not asleep)
    \* --- TradesPoller and the trades API it polls ---
    api_trades,         \* per asset, the trades the API knows, oldest first
    last_trade_ids,     \* self._last_trade_ids (0: no entry)
    delivered,          \* per asset, the ids handed to the callbacks, in order
    \* --- ArbitrageDetector ---
    arb_pairs,          \* the keys of self._pairs
    last_signals,       \* self._last_signals, per condition_id
    last_computed       \* per condition_id, the signal check_pair computed last

riskVars == <<enforce, killed, kill_reason, errors, cooldown_until, daily_pnl,
              risk_events, limit_mult, now, op, ret, underlying>>
simVars == <<orders, trades, positions>>
simCallVars == <<sim_call>>
workerVars == <<processing>>
poolVars == <<pool_markets, market_makers, pool_tasks, pool_running>>
timerVars == <<timer_mode, last_fast_trigger, last_activity>>
limiterVars == <<limiter_last, lock_queue, holder_wake>>
pollerVars == <<api_trades, last_trade_ids, delivered>>
arbVars == <<arb_pairs, last_signals, last_computed>>
componentVars == <<last_call, timerVars, limiterVars, pollerVars, arbVars>>
otherVars == <<simCallVars, workerVars, poolVars, componentVars>>
quoterVars == <<pc, running, shutdown_event, bid_order, ask_order, last_mid,
                q_feed, end_reason, seen_unhealthy>>
feedViewVars == <<feed_healthy, book>>
feedVars == <<state, tokens, data_source, ws_healthy_since, message_queue,
              queue_tasks, health_tasks, resubscribes>>
storeVars == <<store, last_message>>
wsVars == <<ws_connected, ws_sock, should_run, reconnect_count, ws_task, subscribed>>
restVars == <<rest_running>>
allFeedVars == <<feedVars, storeVars, wsVars, restVars>>
nonRiskVars == <<simVars, otherVars, quoterVars, feedViewVars, allFeedVars>>
outsideFeedVars == <<enforce, killed, kill_reason, errors, cooldown_until,
                     daily_pnl, risk_events, limit_mult, ret, underlying, simVars,
                     simCallVars, quoterVars, feedViewVars, poolVars,
                     componentVars>>
nonFeedVars == <<outsideFeedVars, workerVars>>
vars == <<riskVars, nonRiskVars>>

Abs(x) == IF x < 0 THEN -x ELSE x
Max(a, b) == IF a >= b THEN a ELSE b
Min(a, b) == IF a <= b THEN a ELSE b

OK == [status |-> "OK", reason |-> ""]
NoCheck == [status |-> "none", reason |-> ""]

(***************************************************************************)
(* OrderSimulator                                                          *)
(***************************************************************************)
\* OrderSimulator.get_position
get_position(token) == positions[token]

\* a mutation of UpdatedPositions: a SELL fill is added like a BUY fill
UpdatedPositions_AlwaysAdd(pos, token, side, size) ==
    [pos EXCEPT ![token] = @ + size]

\* OrderSimulator._update_position: the cached position after a fill
UpdatedPositions(pos, token, side, size) ==
    [pos EXCEPT ![token] = IF side = "BUY" THEN @ + size ELSE @ - size]

\* Order.is_live
is_live(order) == order.status = "LIVE"

\* OrderSimulator.create_order: the order map with a fresh LIVE order added
create_order(ords, token, side, price, size) ==
    Append(ords, [token_id |-> token, side |-> side, price |-> price, size |-> size,
                  filled |-> 0, status |-> "LIVE"])

\* OrderSimulator.cancel_order: what it returns
cancel_order_returns(ords, order_id) ==
    ~(order_id \notin DOMAIN ords \/ ~is_live(ords[order_id]))

\* a mutation of cancel_order: the status of the order is not looked at
cancel_order_AnyStatus(ords, order_id) ==
    IF order_id \notin DOMAIN ords
    THEN ords
    ELSE [ords EXCEPT ![order_id].status = "CANCELLED"]

\* OrderSimulator.cancel_order: the order map afterwards
cancel_order(ords, order_id) ==
    IF order_id \notin DOMAIN ords \/ ~is_live(ords[order_id])
    THEN ords
    ELSE [ords EXCEPT ![order_id].status = "CANCELLED"]

\* OrderSimulator.cancel_all: what it returns, the number of orders cancelled
cancel_all_returns(ords, token) ==
    Cardinality({i \in DOMAIN ords :
                    /\ is_live(ords[i])
                    /\ ~(token # "" /\ ords[i].token_id # token)})

\* a mutation of cancel_all: orders that are not LIVE are cancelled too
cancel_all_IgnoreStatus(ords, token) ==
    [i \in DOMAIN ords |->
        IF token # "" /\ ords[i].token_id # token THEN ords[i]
        ELSE [ords[i] EXCEPT !.status = "CANCELLED"]]

\* OrderSimulator.cancel_all: the order map afterwards ("" stands for token_id=None)
cancel_all(ords, token) ==
    [i \in DOMAIN ords |->
        IF ~is_live(ords[i]) THEN ords[i]
        ELSE IF token # "" /\ ords[i].token_id # token THEN ords[i]
        ELSE [ords[i] EXCEPT !.status = "CANCELLED"]]

\* a mutation of should_fill: an order at the touch is not filled
should_fill_Strict(order, bid, ask) ==
    \/ order.side = "BUY" /\ order.price > ask
    \/ order.side = "SELL" /\ order.price < bid

\* OrderSimulator.check_fills: does this order cross the touch?
should_fill(order, bid, ask) ==
    \/ order.side = "BUY" /\ order.price >= ask
    \/ order.side = "SELL" /\ order.price <= bid

\* OrderSimulator.check_fills: walk the orders from index i on; sim is
\* [orders, trades, positions]
RECURSIVE FillFrom(_, _, _, _, _)
FillFrom(sim, i, token, bid, ask) ==
    IF i > Len(sim.orders) THEN sim
    ELSE LET order == sim.orders[i]
         IN  IF ~is_live(order) \/ order.token_id # token
                \/ ~should_fill(order, bid, ask)
             THEN FillFrom(sim, i + 1, token, bid, ask)
             ELSE FillFrom(
                    [orders |-> [sim.orders EXCEPT ![i].filled = order.size,
                                                   ![i].status = "MATCHED"],
                     trades |-> Append(sim.trades,
                                  [order_id |-> i, token_id |-> order.token_id,
                                   side |-> order.side, price |-> order.price,
                                   size |-> order.size]),
                     positions |-> UpdatedPositions(sim.positions, token,
                                                    order.side, order.size)],
                    i + 1, token, bid, ask)

check_fills(sim, token, bid, ask) == FillFrom(sim, 1, token, bid, ask)

(***************************************************************************)
(* RiskManager                                                             *)
(***************************************************************************)
\* _check_error_rate: number of errors with ts > now - 60
\* a mutation of RecentErrors: the window is half a minute
RecentErrors_ShortWindow ==
    Cardinality({i \in 1..Len(errors) : errors[i] > now - ERROR_WINDOW \div 2})

RecentErrors ==
    Cardinality({i \in 1..Len(errors) : errors[i] > now - ERROR_WINDOW})

\* _check_positions: first token over the vol-adjusted limit, else total exposure
RECURSIVE PositionScan(_, _)
PositionScan(token_ids, total_exposure) ==
    IF token_ids = << >>
    THEN IF total_exposure > max_total_exposure
         THEN [status |-> "WARN", reason |-> "exposure"]
         ELSE OK
    ELSE LET abs_position == Abs(get_position(Head(token_ids)))
         IN  IF abs_position * 10 > max_position * limit_mult
             THEN [status |-> "WARN", reason |-> "position"]
             ELSE PositionScan(Tail(token_ids), total_exposure + abs_position)

\* a mutation of check_positions: an asset over its limit is reported as
\* total exposure
check_positions_AsExposure(token_ids) ==
    IF PositionScan(token_ids, 0).status = "WARN"
    THEN [status |-> "WARN", reason |-> "exposure"]
    ELSE OK

check_positions(token_ids) == PositionScan(token_ids, 0)

\* _check_daily_pnl: the RiskCheck and whether it sets the kill switch
check_daily_pnl_NoKill ==
    IF daily_pnl < -max_daily_loss
    THEN [status |-> "STOP", reason |-> "daily_loss", kill |-> FALSE]
    ELSE IF daily_pnl * 10 < -max_daily_loss * 8
         THEN [status |-> "WARN", reason |-> "pnl_warn", kill |-> FALSE]
         ELSE [status |-> "OK", reason |-> "", kill |-> FALSE]

check_daily_pnl ==
    IF daily_pnl < -max_daily_loss
    THEN [status |-> "STOP", reason |-> "daily_loss", kill |-> enforce]
    ELSE IF daily_pnl * 10 < -max_daily_loss * 8
         THEN [status |-> "WARN", reason |-> "pnl_warn", kill |-> FALSE]
         ELSE [status |-> "OK", reason |-> "", kill |-> FALSE]

\* _run_checks: the RiskCheck it returns together with the values it leaves in
\* _cooldown_until and _killed
run_checks(token_ids) ==
    IF now < cooldown_until
    THEN [check |-> [status |-> "STOP", reason |-> "cooldown"],
          cooldown |-> cooldown_until, kill |-> FALSE]
    ELSE IF RecentErrors >= max_errors_per_minute
    THEN [check |-> [status |-> "STOP", reason |-> "error_rate"],
          cooldown |-> now + error_cooldown, kill |-> FALSE]
    ELSE LET pnl == check_daily_pnl
             pnl_check == [status |-> pnl.status, reason |-> pnl.reason]
             pos_check == IF token_ids # << >> THEN check_positions(token_ids) ELSE OK
         IN  IF pnl_check.status = "STOP"
             THEN [check |-> pnl_check, cooldown |-> cooldown_until, kill |-> pnl.kill]
             ELSE IF pnl_check.status = "WARN"
             THEN [check |-> pnl_check, cooldown |-> cooldown_until, kill |-> pnl.kill]
             ELSE IF pos_check.status = "WARN"
             THEN [check |-> pos_check, cooldown |-> cooldown_until, kill |-> pnl.kill]
             ELSE [check |-> OK, cooldown |-> cooldown_until, kill |-> pnl.kill]

\* check(): the kill switch is looked at first, in every mode
KillSwitchApplies_EnforceOnly == killed /\ enforce

KillSwitchApplies == killed

\* check(): what the caller gets for the RiskCheck c of _run_checks
ReturnedCheck_Unmasked(c) == c

ReturnedCheck(c) == IF c.status # "OK" /\ ~enforce THEN OK ELSE c

\* check() and _log_risk_event: the event log after the RiskCheck c of _run_checks
LoggedEvents(c) ==
    IF c.status # "OK"
    THEN Append(risk_events, [status |-> c.status, enforced |-> enforce])
    ELSE risk_events

\* RiskManager.check: returned RiskCheck and the state it leaves behind
CheckOutcome(token_ids) ==
    IF KillSwitchApplies
    THEN [ret |-> [status |-> "STOP", reason |-> "killed"], underlying |-> NoCheck,
          killed |-> killed, kill_reason |-> kill_reason,
          cooldown |-> cooldown_until, events |-> risk_events]
    ELSE LET r == run_checks(token_ids)
         IN  [ret |-> ReturnedCheck(r.check),
              underlying |-> r.check,
              killed |-> killed \/ r.kill,
              kill_reason |-> IF r.kill THEN "daily_loss" ELSE kill_reason,
              cooldown |-> r.cooldown,
              events |-> LoggedEvents(r.check)]

\* the part of check() that changes the manager
ApplyCheck(token_ids) ==
    LET c == CheckOutcome(token_ids)
    IN  /\ Len(c.events) <= MaxEvents
        /\ killed' = c.killed
        /\ kill_reason' = c.kill_reason
        /\ cooldown_until' = c.cooldown
        /\ risk_events' = c.events
        /\ ret' = c.ret
        /\ underlying' = c.underlying

check(token_ids) ==
    /\ ApplyCheck(token_ids)
    /\ op' = "check"
    /\ UNCHANGED <<enforce, errors, daily_pnl, limit_mult, now, nonRiskVars>>

\* RiskManager.record_trade: the daily P&L after the trade
PnlAfterTrade(realized_pnl, fee) ==
    IF realized_pnl # << >> THEN daily_pnl + (realized_pnl[1] - fee)
    ELSE IF fee > 0 THEN daily_pnl - fee
    ELSE daily_pnl

record_trade(realized_pnl, fee) ==
    /\ PnlAfterTrade(realized_pnl, fee) \in (-MaxLoss)..MaxGain
    /\ daily_pnl' = PnlAfterTrade(realized_pnl, fee)
    /\ op' = "record_trade"
    /\ UNCHANGED <<enforce, killed, kill_reason, errors, cooldown_until,
                   risk_events, limit_mult, now, ret, underlying, nonRiskVars>>

\* RiskManager.record_error: append to the deque(maxlen=100)
ErrorsAfterAppend ==
    IF Len(errors) = ERRORS_MAXLEN THEN Append(Tail(errors), now)
    ELSE Append(errors, now)

record_error ==
    /\ Len(errors) < MaxErrors
    /\ errors' = ErrorsAfterAppend
    /\ op' = "record_error"
    /\ UNCHANGED <<enforce, killed, kill_reason, cooldown_until, daily_pnl,
                   risk_events, limit_mult, now, ret, underlying, nonRiskVars>>

kill_switch ==
    /\ killed' = TRUE
    /\ kill_reason' = "manual"
    /\ op' = "kill_switch"
    /\ UNCHANGED <<enforce, errors, cooldown_until, daily_pnl, risk_events,
                   limit_mult, now, ret, underlying, nonRiskVars>>

reset_kill_switch ==
    /\ killed' = FALSE
    /\ kill_reason' = ""
    /\ op' = "reset_kill_switch"
    /\ UNCHANGED <<enforce, errors, cooldown_until, daily_pnl, risk_events,
                   limit_mult, now, ret, underlying, nonRiskVars>>

reset_daily_pnl ==
    /\ daily_pnl' = 0
    /\ op' = "reset_daily_pnl"
    /\ UNCHANGED <<enforce, killed, kill_reason, errors, cooldown_until,
                   risk_events, limit_mult, now, ret, underlying, nonRiskVars>>

\* set_volatility_multiplier: limit_mult = 1.0 if m <= 1.0 else max(0.5, 1 - (m-1)*0.5)
LimitMult(multiplier) ==
    IF multiplier <= 10 THEN 10 ELSE Max(5, 10 - (multiplier - 10) \div 2)

set_volatility_multiplier(multiplier) ==
    /\ limit_mult' = LimitMult(multiplier)
    /\ op' = "set_volatility_multiplier"
    /\ UNCHANGED <<enforce, killed, kill_reason, errors, cooldown_until, daily_pnl,
                   risk_events, now, ret, underlying, nonRiskVars>>

\* a fill of the simulator moves the position that _check_positions reads
update_position(token, side, size) ==
    /\ Abs(UpdatedPositions(positions, token, side, size)[token]) <= MaxAbsPosition
    /\ positions' = UpdatedPositions(positions, token, side, size)
    /\ op' = "fill"
    /\ UNCHANGED <<enforce, killed, kill_reason, errors, cooldown_until, daily_pnl,
                   risk_events, limit_mult, now, ret, underlying, orders, trades,
                   quoterVars, feedViewVars, allFeedVars, otherVars>>

\* the wall clock advances
AdvanceRiskClock ==
    /\ now + RiskClockStep <= MaxNow
    /\ now' = now + RiskClockStep
    /\ op' = "clock"
    /\ UNCHANGED <<enforce, killed, kill_reason, errors, cooldown_until, daily_pnl,
                   risk_events, limit_mult, ret, underlying, nonRiskVars>>

RiskInit ==
    /\ enforce \in BOOLEAN
    /\ killed = FALSE
    /\ kill_reason = ""
    /\ errors = << >>
    /\ cooldown_until = 0
    /\ daily_pnl = 0
    /\ risk_events = << >>
    /\ limit_mult = 10
    /\ op = "init"
    /\ ret = NoCheck
    /\ underlying = NoCheck

SimInit ==
    /\ orders = << >>
    /\ trades = << >>
    /\ positions = [a \in Assets |-> 0]
    /\ sim_call = [name |-> "none"]

QuoterInit ==
    /\ pc = "idle"
    /\ running = FALSE
    /\ shutdown_event = FALSE
    /\ bid_order = NoOrder
    /\ ask_order = NoOrder
    /\ last_mid = NoMid
    /\ q_feed = "none"
    /\ end_reason = ""
    /\ seen_unhealthy = FALSE

\* the tokens a pool is given
PoolTokens == {"t1", "t2", "t3"}

\* MarketMakerPool.__init__
PoolInit ==
    /\ pool_markets = [t \in PoolTokens |-> [present |-> FALSE, is_active |-> FALSE]]
    /\ market_makers = {}
    /\ pool_tasks = [t \in PoolTokens |-> "none"]
    /\ pool_running = FALSE

\* the YES/NO pairs a detector is given, by condition_id
Pairs == [c1 |-> [yes_token_id |-> "t1", no_token_id |-> "t2"],
          c2 |-> [yes_token_id |-> "t3", no_token_id |-> "t4"]]
\* no signal (None)
NoSignal == [type |-> "none"]

\* no call made yet
ComponentInit ==
    /\ last_call = [name |-> "none"]
    \* AdaptiveTimer.__init__
    /\ timer_mode = "NORMAL"
    /\ last_fast_trigger = 0
    /\ last_activity = now
    \* RateLimiter.__init__
    /\ limiter_last = 0
    /\ lock_queue = << >>
    /\ holder_wake = 0
    \* TradesPoller.__init__, and an API without trades
    /\ api_trades = [a \in Assets |-> << >>]
    /\ last_trade_ids = [a \in Assets |-> 0]
    /\ delivered = [a \in Assets |-> << >>]
    \* ArbitrageDetector.__init__
    /\ arb_pairs = {}
    /\ last_signals = [c \in DOMAIN Pairs |-> NoSignal]
    /\ last_computed = [c \in DOMAIN Pairs |-> NoSignal]

FeedViewInit ==
    /\ feed_healthy = FALSE
    /\ book = [bid |-> 0, ask |-> 0]

\* MarketFeed.__init__ with its DataStore, WebSocketConnection and RESTPoller
FeedInit ==
    /\ state = "STOPPED"
    /\ tokens = << >>
    /\ data_source = "none"
    /\ ws_healthy_since = Never
    /\ message_queue = << >>
    /\ queue_tasks = [cur |-> FALSE, orphans |-> 0]
    /\ health_tasks = [cur |-> FALSE, orphans |-> 0]
    /\ resubscribes = 0
    /\ store = [a \in Assets |-> [tracked |-> FALSE, last_update |-> Never,
                                   sequence |-> NoSequence, gap_count |-> 0]]
    /\ last_message = Never
    /\ ws_connected = FALSE
    /\ ws_sock = FALSE
    /\ should_run = FALSE
    /\ reconnect_count = 0
    /\ ws_task = "none"
    /\ subscribed = {}
    /\ processing = << >>
    /\ rest_running = FALSE

InitRisk ==
    RiskInit /\ now = 0 /\ SimInit /\ QuoterInit /\ FeedViewInit /\ FeedInit /\ PoolInit
    /\ ComponentInit

NextRisk ==
    \/ \E t \in TokenLists : check(t)
    \/ \E p \in PnlInputs, f \in FeeInputs : record_trade(p, f)
    \/ record_error
    \/ kill_switch
    \/ reset_kill_switch
    \/ reset_daily_pnl
    \/ \E s \in {"BUY", "SELL"} : update_position("t1", s, 1)
    \/ AdvanceRiskClock

SpecRisk == InitRisk /\ [][NextRisk]_vars

\* the risk manager with positions on both assets and the volatility
\* multiplier moving, so that every rule of check() gets to decide; the
\* clock stands still (the ageing of errors and cooldowns is in SpecRisk)
NextRiskRules ==
    \/ \E t \in TokenLists : check(t)
    \/ \E p \in PnlInputs \ {<< >>} : record_trade(p, 0)
    \/ record_error
    \/ kill_switch
    \/ \E a \in Assets : update_position(a, "BUY", 1)
    \/ \E m \in VolMultipliers : set_volatility_multiplier(m)

SpecRiskRules == InitRisk /\ [][NextRiskRules]_vars

(***************************************************************************)
(* Order path (src/src/trading.py), DRY_RUN                                *)
(***************************************************************************)
\* validate_price, validate_size and check_position_limit all pass
OrderAccepted(pos, token, side, price, size) ==
    /\ price > 0 /\ price < 100
    /\ size >= MIN_ORDER_SIZE /\ size <= MAX_ORDER_SIZE
    /\ Abs(IF side = "BUY" THEN pos[token] + size ELSE pos[token] - size)
          <= MAX_POSITION_PER_MARKET

(***************************************************************************)
(* Quoter: SimpleMarketMaker; SmartMarketMaker has the same run loop,      *)
(* risk gate, feed gate, requote test, cancellation and shutdown           *)
(***************************************************************************)
\* OrderBook.midpoint in half cents, NoMid when a side is missing
Midpoint(b) == IF b.bid # 0 /\ b.ask # 0 THEN b.bid + b.ask ELSE NoMid

\* Decimal.quantize(Decimal("1")) of x2/2: round half to even
RoundHalfEven(x2) ==
    IF x2 % 2 = 0 THEN x2 \div 2
    ELSE LET lo == (x2 - 1) \div 2 IN IF lo % 2 = 0 THEN lo ELSE lo + 1

\* the quoter's own state together with the simulator's, as one record
QState ==
    [orders |-> orders, trades |-> trades, positions |-> positions,
     bid_order |-> bid_order, ask_order |-> ask_order, last_mid |-> last_mid,
     running |-> running, shutdown_event |-> shutdown_event]

\* _cancel_all_quotes
cancel_all_quotes(q) ==
    LET o1 == IF q.bid_order # NoOrder /\ is_live(q.orders[q.bid_order])
              THEN cancel_order(q.orders, q.bid_order) ELSE q.orders
        o2 == IF q.ask_order # NoOrder /\ is_live(o1[q.ask_order])
              THEN cancel_order(o1, q.ask_order) ELSE o1
    IN  [q EXCEPT !.orders = o2, !.bid_order = NoOrder, !.ask_order = NoOrder]

\* stop()
stopped(q) == [q EXCEPT !.running = FALSE, !.shutdown_event = TRUE]

\* _should_requote
should_requote(q, mid) ==
    \/ q.bid_order = NoOrder /\ q.ask_order = NoOrder
    \/ q.last_mid # NoMid /\ Abs(mid - q.last_mid) >= 2 * MM_REQUOTE_THRESHOLD

\* _place_quote on one side: the order is created unless place_order raises
place_quote(q, side, price) ==
    IF OrderAccepted(q.positions, token_id, side, price, MM_SIZE)
    THEN LET ords == create_order(q.orders, token_id, side, price, MM_SIZE)
         IN  IF side = "BUY"
             THEN [q EXCEPT !.orders = ords, !.bid_order = Len(ords)]
             ELSE [q EXCEPT !.orders = ords, !.ask_order = Len(ords)]
    ELSE IF side = "BUY" THEN [q EXCEPT !.bid_order = NoOrder]
         ELSE [q EXCEPT !.ask_order = NoOrder]

\* SimpleMarketMaker._update_quotes
update_quotes(q, mid) ==
    LET bid_price == Max(1, Min(98, RoundHalfEven(mid - MM_SPREAD)))
        ask_price == Max(2, Min(99, RoundHalfEven(mid + MM_SPREAD)))
        q1 == cancel_all_quotes(q)
        position == q1.positions[token_id]
        q2 == IF position < MM_POSITION_LIMIT
              THEN place_quote(q1, "BUY", bid_price) ELSE q1
        q3 == IF position > -MM_POSITION_LIMIT
              THEN place_quote(q2, "SELL", ask_price) ELSE q2
    IN  q3

\* _loop_iteration after a risk check that said STOP
RiskStopBranch_NoStop(q) == cancel_all_quotes(q)

RiskStopBranch(q) == stopped(cancel_all_quotes(q))

\* _loop_iteration when the feed is not healthy
FeedGateBranch_NoCancel(q) == q

FeedGateBranch(q) == cancel_all_quotes(q)

\* _loop_iteration from the midpoint on: fill sweep, requote test, new quotes
QuoteBranch(q) ==
    LET mid == Midpoint(book)
    IN  IF mid = NoMid THEN q
        ELSE LET sim == IF DRY_RUN /\ book.bid # 0 /\ book.ask # 0
                        THEN check_fills([orders |-> q.orders, trades |-> q.trades,
                                          positions |-> q.positions],
                                         token_id, book.bid, book.ask)
                        ELSE [orders |-> q.orders, trades |-> q.trades,
                              positions |-> q.positions]
                 q1 == [q EXCEPT !.orders = sim.orders, !.trades = sim.trades,
                                 !.positions = sim.positions]
             IN  IF should_requote(q1, mid)
                 THEN [update_quotes(q1, mid) EXCEPT !.last_mid = mid]
                 ELSE q1

\* _loop_iteration given the status risk.check returned
loop_iteration(status) ==
    IF status = "STOP" THEN RiskStopBranch(QState)
    ELSE IF q_feed # "running" \/ ~feed_healthy THEN FeedGateBranch(QState)
    ELSE QuoteBranch(QState)

SetQState(q) ==
    /\ orders' = q.orders
    /\ trades' = q.trades
    /\ positions' = q.positions
    /\ bid_order' = q.bid_order
    /\ ask_order' = q.ask_order
    /\ last_mid' = q.last_mid
    /\ running' = q.running
    /\ shutdown_event' = q.shutdown_event

\* run(): create the feed and start it
run_start ==
    /\ pc = "idle"
    /\ pc' = "wait_data"
    /\ q_feed' = "running"
    /\ op' = "run"
    /\ UNCHANGED <<enforce, killed, kill_reason, errors, cooldown_until, daily_pnl,
                   risk_events, limit_mult, now, ret, underlying, simVars,
                   running, shutdown_event, bid_order, ask_order, last_mid,
                   end_reason, seen_unhealthy, feedViewVars, allFeedVars, otherVars>>

\* _wait_for_data returns: the feed is healthy and has a mid
wait_for_data_ok ==
    /\ pc = "wait_data"
    /\ feed_healthy /\ Midpoint(book) # NoMid
    /\ running' = TRUE
    /\ pc' = "loop"
    /\ op' = "wait_for_data"
    /\ UNCHANGED <<enforce, killed, kill_reason, errors, cooldown_until, daily_pnl,
                   risk_events, limit_mult, now, ret, underlying, simVars,
                   shutdown_event, bid_order, ask_order, last_mid, q_feed,
                   end_reason, seen_unhealthy, feedViewVars, allFeedVars, otherVars>>

\* _shutdown up to its await: cancel_all_orders(token_id)
ShutdownOrders_Skip(ords) == ords

ShutdownOrders(ords) == cancel_all(ords, token_id)

LeaveLoop(reason) ==
    /\ orders' = ShutdownOrders(orders)
    /\ pc' = "stopping_feed"
    /\ end_reason' = reason
    /\ UNCHANGED <<enforce, killed, kill_reason, errors, cooldown_until, daily_pnl,
                   risk_events, limit_mult, now, ret, underlying, trades, positions,
                   running, shutdown_event, bid_order, ask_order, last_mid, q_feed,
                   seen_unhealthy, feedViewVars, allFeedVars, otherVars>>

\* _wait_for_data raises RuntimeError after its timeout; finally: _shutdown
wait_for_data_timeout ==
    /\ pc = "wait_data"
    /\ op' = "wait_for_data"
    /\ LeaveLoop("startup")

\* the while condition of run() is false; finally: _shutdown
loop_exit ==
    /\ pc = "loop"
    /\ ~running \/ shutdown_event
    /\ op' = "loop_exit"
    /\ LeaveLoop(IF end_reason # "" THEN end_reason ELSE "stop")

\* the task running run() is cancelled at one of its awaits; finally: _shutdown
task_cancelled ==
    /\ pc \in {"wait_data", "loop"}
    /\ op' = "cancelled"
    /\ LeaveLoop("cancelled")

\* _shutdown after cancel_all_orders: await self.feed.stop()
shutdown_finish ==
    /\ pc = "stopping_feed"
    /\ pc' = "done"
    /\ q_feed' = IF q_feed # "none" THEN "stopped" ELSE q_feed
    /\ op' = "shutdown"
    /\ UNCHANGED <<enforce, killed, kill_reason, errors, cooldown_until, daily_pnl,
                   risk_events, limit_mult, now, ret, underlying, simVars,
                   running, shutdown_event, bid_order, ask_order, last_mid,
                   end_reason, seen_unhealthy, feedViewVars, allFeedVars, otherVars>>

\* stop(), called from a signal handler or by the owner of the quoter
stop ==
    /\ pc # "done"
    /\ ~shutdown_event
    /\ SetQState(stopped(QState))
    /\ op' = "stop"
    /\ UNCHANGED <<enforce, killed, kill_reason, errors, cooldown_until, daily_pnl,
                   risk_events, limit_mult, now, ret, underlying,
                   pc, q_feed, end_reason, seen_unhealthy, feedViewVars, allFeedVars, otherVars>>

\* one pass of the while loop of run(): _loop_iteration
tick ==
    /\ pc = "loop"
    /\ running /\ ~shutdown_event
    /\ ApplyCheck(<<token_id>>)
    /\ LET q == loop_iteration(CheckOutcome(<<token_id>>).ret.status)
       IN  /\ Len(q.orders) <= MaxOrders
           /\ SetQState(q)
    /\ end_reason' = IF CheckOutcome(<<token_id>>).ret.status = "STOP"
                     THEN "risk" ELSE end_reason
    /\ seen_unhealthy' = ~feed_healthy
    /\ op' = "tick"
    /\ UNCHANGED <<enforce, errors, daily_pnl, limit_mult, now, pc, q_feed,
                   feedViewVars, allFeedVars, otherVars>>

\* the feed's health as the quoter sees it changes
FeedHealthChanges ==
    /\ q_feed = "running"
    /\ feed_healthy' = ~feed_healthy
    /\ seen_unhealthy' = FALSE
    /\ op' = "feed"
    /\ UNCHANGED <<enforce, killed, kill_reason, errors, cooldown_until, daily_pnl,
                   risk_events, limit_mult, now, ret, underlying, simVars,
                   pc, running, shutdown_event, bid_order, ask_order, last_mid,
                   q_feed, end_reason, book, allFeedVars, otherVars>>

\* the feed's store receives another book for token_id
BookChanges(b) ==
    /\ q_feed = "running"
    /\ b # book
    /\ book' = b
    /\ op' = "book"
    /\ UNCHANGED <<enforce, killed, kill_reason, errors, cooldown_until, daily_pnl,
                   risk_events, limit_mult, now, ret, underlying, simVars,
                   quoterVars, feed_healthy, allFeedVars, otherVars>>

InitQuoter ==
    RiskInit /\ now = 0 /\ SimInit /\ QuoterInit /\ FeedViewInit /\ FeedInit /\ PoolInit
    /\ ComponentInit

NextQuoter ==
    \/ run_start
    \/ wait_for_data_ok
    \/ wait_for_data_timeout
    \/ tick
    \/ loop_exit
    \/ task_cancelled
    \/ shutdown_finish
    \/ stop
    \/ FeedHealthChanges
    \/ \E b \in Books : BookChanges(b)
    \/ kill_switch
    \/ record_trade(<<-30>>, 0)

SpecQuoter == InitQuoter /\ [][NextQuoter]_vars

\* books whose mid stays within the requote threshold of 50 cents while
\* the touch reaches a bid quoted at 48 or an ask quoted at 52
RequoteBooks == {[bid |-> 48, ask |-> 52], [bid |-> 47, ask |-> 48],
                 [bid |-> 52, ask |-> 53], [bid |-> 49, ask |-> 57]}

\* the quoter running on a healthy or unhealthy feed whose book moves
\* through RequoteBooks
NextRequote ==
    \/ run_start
    \/ wait_for_data_ok
    \/ tick
    \/ FeedHealthChanges
    \/ \E b \in RequoteBooks : BookChanges(b)

SpecRequote == InitQuoter /\ [][NextRequote]_vars

\* the same quoter with the loop of run() going on: a tick that is due is taken
RequoteFairness == WF_vars(tick)

SpecRequoteFair == InitQuoter /\ [][NextRequote]_vars /\ RequoteFairness

(***************************************************************************)
(* The quoter with DRY_RUN off: orders live on the exchange, `orders` is   *)
(* the exchange's view of them, and the quoter keeps the Order objects     *)
(* place_order returned, whose status stays LIVE                           *)
(***************************************************************************)
\* trading.cancel_order in live mode: the client call raises (failed) and the
\* function returns False, or the exchange cancels the order
live_cancel_order(ords, order_id, failed) ==
    IF failed \/ ~is_live(ords[order_id])
    THEN ords
    ELSE [ords EXCEPT ![order_id].status = "CANCELLED"]

\* _cancel_all_quotes in live mode: the slots are emptied whatever cancel_order
\* returned
live_cancel_all_quotes(q, failed) ==
    LET o1 == IF q.bid_order # NoOrder
              THEN live_cancel_order(q.orders, q.bid_order, failed) ELSE q.orders
        o2 == IF q.ask_order # NoOrder
              THEN live_cancel_order(o1, q.ask_order, failed) ELSE o1
    IN  [q EXCEPT !.orders = o2, !.bid_order = NoOrder, !.ask_order = NoOrder]

\* _update_quotes in live mode
live_update_quotes(q, mid, failed) ==
    LET bid_price == Max(1, Min(98, RoundHalfEven(mid - MM_SPREAD)))
        ask_price == Max(2, Min(99, RoundHalfEven(mid + MM_SPREAD)))
        q1 == live_cancel_all_quotes(q, failed)
        position == q1.positions[token_id]
        q2 == IF position < MM_POSITION_LIMIT
              THEN place_quote(q1, "BUY", bid_price) ELSE q1
        q3 == IF position > -MM_POSITION_LIMIT
              THEN place_quote(q2, "SELL", ask_price) ELSE q2
    IN  q3

\* _loop_iteration in live mode: no simulated fill sweep
live_loop_iteration(status, failed) ==
    IF status = "STOP" THEN stopped(live_cancel_all_quotes(QState, failed))
    ELSE IF q_feed # "running" \/ ~feed_healthy
    THEN live_cancel_all_quotes(QState, failed)
    ELSE LET mid == Midpoint(book)
         IN  IF mid = NoMid THEN QState
             ELSE IF should_requote(QState, mid)
             THEN [live_update_quotes(QState, mid, failed) EXCEPT !.last_mid = mid]
             ELSE QState

\* one pass of the while loop of run() in live mode
live_tick(failed) ==
    /\ pc = "loop"
    /\ running /\ ~shutdown_event
    /\ ApplyCheck(<<token_id>>)
    /\ LET q == live_loop_iteration(CheckOutcome(<<token_id>>).ret.status, failed)
       IN  /\ Len(q.orders) <= MaxOrders
           /\ SetQState(q)
    /\ end_reason' = IF CheckOutcome(<<token_id>>).ret.status = "STOP"
                     THEN "risk" ELSE end_reason
    /\ seen_unhealthy' = ~feed_healthy
    /\ op' = IF failed THEN "tick_cancel_failed" ELSE "tick"
    /\ UNCHANGED <<enforce, errors, daily_pnl, limit_mult, now, pc, q_feed,
                   feedViewVars, allFeedVars, otherVars>>

\* the exchange fills a resting order of the quoter
exchange_fill(i) ==
    /\ i \in DOMAIN orders
    /\ is_live(orders[i])
    /\ orders' = [orders EXCEPT ![i].status = "MATCHED", ![i].filled = orders[i].size]
    /\ positions' = [positions EXCEPT ![orders[i].token_id] =
                        IF orders[i].side = "BUY" THEN @ + orders[i].size
                        ELSE @ - orders[i].size]
    /\ op' = "fill"
    /\ UNCHANGED <<enforce, killed, kill_reason, errors, cooldown_until, daily_pnl,
                   risk_events, limit_mult, now, ret, underlying, trades,
                   quoterVars, feedViewVars, allFeedVars, otherVars>>

NextLiveQuoter ==
    \/ run_start
    \/ wait_for_data_ok
    \/ \E failed \in BOOLEAN : live_tick(failed)
    \/ \E i \in 1..MaxOrders : exchange_fill(i)
    \/ FeedHealthChanges
    \/ \E b \in RequoteBooks : BookChanges(b)

SpecLiveQuoter == InitQuoter /\ [][NextLiveQuoter]_vars

(***************************************************************************)
(* DataStore (src/src/feed/data_store.py)                                  *)
(***************************************************************************)
\* the tokens in self._data
Tracked(st) == {a \in Assets : st[a].tracked}

\* TokenData.seconds_since_update() < stale_threshold; a token that is not
\* tracked, or was never updated, is not fresh
is_fresh(st, a, t) ==
    /\ st[a].tracked
    /\ st[a].last_update # Never
    /\ t - st[a].last_update < stale_threshold

all_fresh(st, t) ==
    /\ Tracked(st) # {}
    /\ \A a \in Tracked(st) : is_fresh(st, a, t)

has_gaps(st) == \E a \in Assets : st[a].gap_count > 0

register_token(st, a) ==
    IF st[a].tracked THEN st
    ELSE [st EXCEPT ![a] = [tracked |-> TRUE, last_update |-> Never,
                            sequence |-> NoSequence, gap_count |-> 0]]

\* a mutation of check_sequence_returns: a first sequence counts as a gap
check_sequence_returns_FirstIsGap(st, a, seq) ==
    seq = 0 \/ (st[a].sequence # NoSequence /\ seq = st[a].sequence + 1)

\* what check_sequence returns (seq = 0: no sequence field)
check_sequence_returns(st, a, seq) ==
    IF seq = 0 THEN TRUE
    ELSE IF st[a].sequence = NoSequence THEN TRUE
    ELSE IF seq = st[a].sequence + 1 THEN TRUE
    ELSE FALSE

\* seq = 0 stands for a message without a sequence field
check_sequence(st, a, seq) ==
    IF seq = 0 THEN st
    ELSE IF st[a].sequence = NoSequence THEN [st EXCEPT ![a].sequence = seq]
    ELSE IF seq = st[a].sequence + 1 THEN [st EXCEPT ![a].sequence = seq]
    ELSE [st EXCEPT ![a].gap_count = @ + 1, ![a].sequence = seq]

clear_gaps(st, a) == [st EXCEPT ![a].gap_count = 0]

\* only the update's effect on tracking and on the timestamp is kept
update_book(st, a, t) ==
    [register_token(st, a) EXCEPT ![a].last_update = t]

clear_store(st) ==
    [a \in Assets |-> [tracked |-> FALSE, last_update |-> Never,
                       sequence |-> NoSequence, gap_count |-> 0]]

\* the store-wide heartbeat: the time of the last wire message on any asset
record_message_received(t) == t

\* seconds since the last wire message; never a message: beyond every limit
seconds_since_any_message(lm, t) ==
    IF lm = Never THEN HEARTBEAT_LIMIT + 1 ELSE t - lm

(***************************************************************************)
(* MarketFeed (src/src/feed/feed.py)                                       *)
(***************************************************************************)
\* WebSocketConnection.is_connected
ws_is_connected == ws_connected /\ ws_sock

\* a mutation of is_healthy: gaps count on every data source
is_healthy_GapsAlways ==
    /\ state = "RUNNING"
    /\ ~(seconds_since_any_message(last_message, now) > HEARTBEAT_LIMIT)
    /\ all_fresh(store, now)
    /\ ~has_gaps(store)

is_healthy ==
    /\ state = "RUNNING"
    /\ ~(seconds_since_any_message(last_message, now) > HEARTBEAT_LIMIT)
    /\ all_fresh(store, now)
    /\ ~(data_source = "websocket" /\ has_gaps(store))

\* tokens of a token list, as a set
TokenSet(toks) == {toks[i] : i \in DOMAIN toks}

RECURSIVE RegisterAll(_, _, _)
RegisterAll(st, toks, i) ==
    IF i > Len(toks) THEN st ELSE RegisterAll(register_token(st, toks[i]), toks, i + 1)

\* a task slot of the feed: cur is the task the attribute refers to (alive or
\* not), orphans counts the live tasks the attribute no longer refers to
create_task(slot) ==
    [cur |-> TRUE, orphans |-> slot.orphans + (IF slot.cur THEN 1 ELSE 0)]
cancel_task(slot) == [slot EXCEPT !.cur = FALSE]
Alive(slot) == slot.cur \/ slot.orphans > 0

\* a mutation of feed_start: REST is the fallback of a failed connect only
feed_start_FallbackOnConnectOnly(toks, outcome) ==
    /\ state \in {"STOPPED", "ERROR"}
    /\ create_task(queue_tasks).orphans <= MaxOrphans
    /\ create_task(health_tasks).orphans <= MaxOrphans
    /\ tokens' = toks
    /\ store' = RegisterAll(store, toks, 1)
    /\ queue_tasks' = create_task(queue_tasks)
    /\ health_tasks' = create_task(health_tasks)
    /\ state' = "RUNNING"
    \* WebSocketConnection.connect()
    /\ should_run' = TRUE
    /\ reconnect_count' = 0
    /\ IF outcome = "connect_failed"
       THEN /\ ws_connected' = FALSE
            /\ UNCHANGED <<ws_sock, ws_task>>
       ELSE /\ ws_connected' = TRUE
            /\ ws_sock' = TRUE
            /\ ws_task' = "receiving"
    /\ subscribed' = IF outcome = "subscribed" THEN TokenSet(toks) ELSE {}
    /\ IF outcome # "connect_failed"
       THEN /\ data_source' = "websocket"
            /\ UNCHANGED rest_running
       ELSE /\ rest_running' = TRUE
            /\ data_source' = "rest"
    /\ op' = "feed_start"
    /\ UNCHANGED <<ws_healthy_since, message_queue, resubscribes, last_message,
                   now, nonFeedVars>>

\* MarketFeed.start(token_ids); outcome is what the WebSocket did:
\* "subscribed", "subscribe_failed" (connected, send raised) or "connect_failed"
feed_start(toks, outcome) ==
    /\ state \in {"STOPPED", "ERROR"}
    /\ create_task(queue_tasks).orphans <= MaxOrphans
    /\ create_task(health_tasks).orphans <= MaxOrphans
    /\ tokens' = toks
    /\ store' = RegisterAll(store, toks, 1)
    /\ queue_tasks' = create_task(queue_tasks)
    /\ health_tasks' = create_task(health_tasks)
    /\ state' = "RUNNING"
    \* WebSocketConnection.connect()
    /\ should_run' = TRUE
    /\ reconnect_count' = 0
    /\ IF outcome = "connect_failed"
       THEN /\ ws_connected' = FALSE
            /\ UNCHANGED <<ws_sock, ws_task>>
       ELSE /\ ws_connected' = TRUE
            /\ ws_sock' = TRUE
            /\ ws_task' = "receiving"
    /\ subscribed' = IF outcome = "subscribed" THEN TokenSet(toks) ELSE {}
    /\ IF outcome = "subscribed"
       THEN /\ data_source' = "websocket"
            /\ UNCHANGED rest_running
       ELSE /\ rest_running' = TRUE
            /\ data_source' = "rest"
    /\ op' = "feed_start"
    /\ UNCHANGED <<ws_healthy_since, message_queue, resubscribes, last_message,
                   now, nonFeedVars>>

\* a mutation of feed_stop: disconnect() leaves the receive task alone
feed_stop_LeavesTask ==
    /\ health_tasks' = cancel_task(health_tasks)
    /\ queue_tasks' = cancel_task(queue_tasks)
    \* WebSocketConnection.disconnect()
    /\ should_run' = FALSE
    /\ ws_connected' = FALSE
    /\ ws_sock' = FALSE
    /\ subscribed' = {}
    \* RESTPoller.stop()
    /\ rest_running' = FALSE
    /\ store' = clear_store(store)
    /\ tokens' = << >>
    /\ data_source' = "none"
    /\ state' = "STOPPED"
    /\ op' = "feed_stop"
    /\ UNCHANGED <<ws_healthy_since, message_queue, resubscribes, last_message,
                   reconnect_count, ws_task, now, nonFeedVars>>

\* MarketFeed.stop()
feed_stop ==
    /\ health_tasks' = cancel_task(health_tasks)
    /\ queue_tasks' = cancel_task(queue_tasks)
    \* WebSocketConnection.disconnect()
    /\ should_run' = FALSE
    /\ ws_connected' = FALSE
    /\ ws_task' = "none"
    /\ ws_sock' = FALSE
    /\ subscribed' = {}
    \* RESTPoller.stop()
    /\ rest_running' = FALSE
    /\ store' = clear_store(store)
    /\ tokens' = << >>
    /\ data_source' = "none"
    /\ state' = "STOPPED"
    /\ op' = "feed_stop"
    /\ UNCHANGED <<ws_healthy_since, message_queue, resubscribes, last_message,
                   reconnect_count, now, nonFeedVars>>

\* _receive_loop gets a frame; _handle_ws_message queues it, or drops it
\* when the queue is full
ws_message(f) ==
    /\ ws_task = "receiving"
    /\ ws_connected
    /\ message_queue' = IF Len(message_queue) < MaxQueue
                        THEN Append(message_queue, f)
                        ELSE message_queue
    /\ op' = "ws_message"
    /\ UNCHANGED <<state, tokens, data_source, ws_healthy_since, queue_tasks,
                   health_tasks, resubscribes, storeVars, wsVars, restVars,
                   now, nonFeedVars>>

\* _process_message: the heartbeat, then the sequence check and the update
ProcessedStore(st, f, t) ==
    IF f.kind = "book"
    THEN update_book(check_sequence(st, f.asset, f.seq), f.asset, t)
    ELSE st

\* one turn of _process_queue
process_queue ==
    /\ Alive(queue_tasks)
    /\ message_queue # << >>
    /\ LET f == Head(message_queue)
       IN  /\ last_message' = record_message_received(now)
           /\ store' = ProcessedStore(store, f, now)
           /\ store'[f.asset].gap_count <= MaxGaps
    /\ message_queue' = Tail(message_queue)
    /\ op' = "process_queue"
    /\ UNCHANGED <<state, tokens, data_source, ws_healthy_since, queue_tasks,
                   health_tasks, resubscribes, wsVars, restVars, now, nonFeedVars>>

\* _handle_ws_connect: a _resubscribe task when there are tokens and the
\* feed is RUNNING
\* a mutation of handle_ws_connect: no _resubscribe task is created
handle_ws_connect_Never(n) == n

handle_ws_connect(n) ==
    IF tokens # << >> /\ state = "RUNNING" THEN n + 1 ELSE n

\* _handle_max_retries: the new state and data source
\* a mutation of handle_max_retries: the callback does nothing
handle_max_retries_Ignored ==
    [state |-> state, data_source |-> data_source]

handle_max_retries ==
    IF rest_running
    THEN [state |-> state, data_source |-> "rest"]
    ELSE [state |-> "ERROR", data_source |-> data_source]

\* _receive_loop, ConnectionClosed / ConnectionClosedError: _reconnect() is
\* entered and its first attempt is counted, or the retries are already used up
connection_lost ==
    /\ ws_task = "receiving"
    /\ ws_connected
    /\ should_run
    /\ ws_connected' = FALSE
    /\ subscribed' = {}
    /\ IF reconnect_count < WS_RECONNECT_ATTEMPTS
       THEN /\ reconnect_count' = reconnect_count + 1
            /\ ws_task' = "backoff"
            /\ UNCHANGED <<state, data_source>>
       ELSE /\ ws_task' = "failed"
            /\ state' = handle_max_retries.state
            /\ data_source' = handle_max_retries.data_source
            /\ UNCHANGED reconnect_count
    /\ op' = "connection_lost"
    /\ UNCHANGED <<tokens, ws_healthy_since, message_queue, queue_tasks,
                   health_tasks, resubscribes, storeVars, ws_sock, should_run,
                   restVars, now, nonFeedVars>>

\* _receive_loop, ConnectionClosedOK: the loop ends without reconnecting
closed_ok ==
    /\ ws_task = "receiving"
    /\ ws_connected
    /\ ws_connected' = FALSE
    /\ subscribed' = {}
    /\ ws_task' = "done"
    /\ op' = "closed_ok"
    /\ UNCHANGED <<feedVars, storeVars, ws_sock, should_run, reconnect_count,
                   restVars, now, nonFeedVars>>

\* _reconnect: the attempt after the backoff sleep fails; the next attempt is
\* counted, or the retries are used up and on_max_retries is called
reconnect_fail ==
    /\ ws_task = "backoff"
    /\ should_run
    /\ IF reconnect_count < WS_RECONNECT_ATTEMPTS
       THEN /\ reconnect_count' = reconnect_count + 1
            /\ UNCHANGED <<ws_task, state, data_source>>
       ELSE /\ ws_task' = "failed"
            /\ state' = handle_max_retries.state
            /\ data_source' = handle_max_retries.data_source
            /\ UNCHANGED reconnect_count
    /\ op' = "reconnect_fail"
    /\ UNCHANGED <<tokens, ws_healthy_since, message_queue, queue_tasks,
                   health_tasks, resubscribes, storeVars, ws_connected, ws_sock,
                   should_run, subscribed, restVars, now, nonFeedVars>>

\* _reconnect: the attempt succeeds; a new receive loop, then on_connect
reconnect_ok ==
    /\ ws_task = "backoff"
    /\ should_run
    /\ ws_sock' = TRUE
    /\ ws_connected' = TRUE
    /\ reconnect_count' = 0
    /\ ws_task' = "receiving"
    /\ subscribed' = {}
    /\ resubscribes' = handle_ws_connect(resubscribes)
    /\ resubscribes' <= MaxResubscribes
    /\ op' = "reconnect_ok"
    /\ UNCHANGED <<state, tokens, data_source, ws_healthy_since, message_queue,
                   queue_tasks, health_tasks, storeVars, should_run, restVars,
                   now, nonFeedVars>>

\* WebSocketConnection.subscribe: the subscription on the socket afterwards;
\* sent tells whether the send went through
subscribe(token_ids, sent) ==
    IF ws_is_connected /\ sent THEN TokenSet(token_ids) ELSE subscribed

\* a _resubscribe task runs: whatever subscribe() returned, the source is
\* the WebSocket
resubscribe(sent) ==
    /\ resubscribes > 0
    /\ resubscribes' = resubscribes - 1
    /\ subscribed' = subscribe(tokens, sent)
    /\ data_source' = "websocket"
    /\ op' = "resubscribe"
    /\ UNCHANGED <<state, tokens, ws_healthy_since, message_queue, queue_tasks,
                   health_tasks, storeVars, ws_connected, ws_sock, should_run,
                   reconnect_count, ws_task, restVars, now, nonFeedVars>>

\* RESTPoller._poll_token got a book for a polled token
rest_poll(a) ==
    /\ rest_running
    /\ a \in TokenSet(tokens)
    /\ store' = clear_gaps(update_book(store, a, now), a)
    /\ op' = "rest_poll"
    /\ UNCHANGED <<feedVars, last_message, wsVars, restVars, now, nonFeedVars>>

\* what _health_monitor reads: the WebSocket is connected and all data is fresh
ws_healthy == ws_is_connected /\ all_fresh(store, now)

\* a mutation of StartsRest: REST is started only after the source is rest
StartsRest_Late == ~rest_running /\ state = "RUNNING" /\ data_source = "rest"

\* _health_monitor, unhealthy branch: the condition for starting REST
StartsRest == ~rest_running /\ state = "RUNNING"

\* _health_monitor, healthy branch: the condition for stopping REST, given
\* the start of the healthy period
StopsRest(since) == rest_running /\ now - since >= rest_recovery_delay

\* one turn of _health_monitor, after its sleep
health_monitor ==
    /\ Alive(health_tasks)
    /\ IF ws_healthy
       THEN LET since == IF ws_healthy_since = Never THEN now ELSE ws_healthy_since
            IN  /\ ws_healthy_since' = since
                /\ IF StopsRest(since)
                   THEN /\ rest_running' = FALSE
                        /\ data_source' = "websocket"
                   ELSE UNCHANGED <<rest_running, data_source>>
       ELSE /\ ws_healthy_since' = Never
            /\ IF StartsRest
               THEN /\ rest_running' = TRUE
                    /\ data_source' = "rest"
               ELSE UNCHANGED <<rest_running, data_source>>
    /\ op' = "health_monitor"
    /\ UNCHANGED <<state, tokens, message_queue, queue_tasks, health_tasks,
                   resubscribes, storeVars, wsVars, now, nonFeedVars>>

\* time passes
AdvanceFeedClock ==
    /\ now + FeedClockStep <= MaxFeedNow
    /\ now' = now + FeedClockStep
    /\ op' = "clock"
    /\ UNCHANGED <<allFeedVars, nonFeedVars>>

InitFeed ==
    /\ RiskInit /\ enforce /\ now = FeedClockStep
    /\ SimInit /\ QuoterInit /\ FeedViewInit /\ FeedInit /\ PoolInit
    /\ ComponentInit

\* the frames of the quoter's token that carry a book
BookFrames == {f \in Frames : f.kind = "book" /\ f.asset = token_id}

\* the feed as the quoter runs it: started on [token_id], stopped, restarted
NextFeed ==
    \/ \E outcome \in {"subscribed", "subscribe_failed", "connect_failed"} :
         feed_start(<<token_id>>, outcome)
    \/ feed_stop
    \/ \E f \in BookFrames : ws_message(f)
    \/ process_queue
    \/ connection_lost
    \/ closed_ok
    \/ reconnect_fail
    \/ reconnect_ok
    \/ \E sent \in BOOLEAN : resubscribe(sent)
    \/ rest_poll(token_id)
    \/ health_monitor
    \/ AdvanceFeedClock

SpecFeed == InitFeed /\ [][NextFeed]_vars

\* one run of the feed on any token list and with every frame; the feed is
\* not stopped, and a lost WebSocket stays lost
NextFeedHealth ==
    \/ \E toks \in Subscriptions :
         \E outcome \in {"subscribed", "subscribe_failed", "connect_failed"} :
            feed_start(toks, outcome)
    \/ \E f \in Frames : ws_message(f)
    \/ process_queue
    \/ connection_lost
    \/ \E a \in Assets : rest_poll(a)
    \/ health_monitor
    \/ AdvanceFeedClock

SpecFeedHealth == InitFeed /\ [][NextFeedHealth]_vars

\* frames of the quoted asset without a sequence number (seq 0) and with
\* one that repeats, which check_sequence counts as a gap
GapFrames == {[kind |-> "book", asset |-> token_id, seq |-> n] : n \in {0, 1}}

\* the feed with its tasks scheduled: the queue processor, the health
\* monitor, the REST poller and the resubscribe tasks are asyncio tasks
\* that run whenever they can, and the clock advances
NextFeedFair ==
    \/ feed_start(<<token_id>>, "subscribed")
    \/ \E f \in GapFrames : ws_message(f)
    \/ process_queue
    \/ connection_lost
    \/ reconnect_ok
    \/ \E sent \in BOOLEAN : resubscribe(sent)
    \/ rest_poll(token_id)
    \/ health_monitor
    \/ AdvanceFeedClock

FeedFairness ==
    /\ WF_vars(process_queue)
    /\ WF_vars(\E sent \in BOOLEAN : resubscribe(sent))
    /\ WF_vars(rest_poll(token_id))
    /\ WF_vars(health_monitor)
    /\ WF_vars(AdvanceFeedClock)

SpecFeedFair == InitFeed /\ [][NextFeedFair]_vars /\ FeedFairness

\* the same scheduled feed when start() may find the WebSocket failing, with
\* a server that is reachable afterwards: a reconnect attempt that is due
\* succeeds
NextFallbackFair ==
    \/ \E outcome \in {"subscribed", "subscribe_failed", "connect_failed"} :
         feed_start(<<token_id>>, outcome)
    \/ \E f \in GapFrames : ws_message(f)
    \/ process_queue
    \/ connection_lost
    \/ reconnect_ok
    \/ \E sent \in BOOLEAN : resubscribe(sent)
    \/ rest_poll(token_id)
    \/ health_monitor
    \/ AdvanceFeedClock

FallbackFairness == FeedFairness /\ WF_vars(reconnect_ok)

SpecFallbackFair == InitFeed /\ [][NextFallbackFair]_vars /\ FallbackFairness

(***************************************************************************)
(* The reconnect loop of WebSocketConnection, one pass of the loop per     *)
(* step, with the sleep of each pass advancing the clock.  The attempt cap *)
(* is a parameter: the feed specifications above run with a small          *)
(* configured cap, this one with the default cap, under which the delay    *)
(* reaches WS_RECONNECT_MAX_DELAY.                                         *)
(***************************************************************************)
\* a mutation of reconnect_delay: the delay is not capped
reconnect_delay_Uncapped(n) == WS_RECONNECT_BASE_DELAY * 2 ^ (n - 1)

\* _reconnect: the delay slept before attempt n
reconnect_delay(n) ==
    Min(WS_RECONNECT_BASE_DELAY * 2 ^ (n - 1), WS_RECONNECT_MAX_DELAY)

\* _receive_loop: the connection is lost and _reconnect is entered
conn_outage ==
    /\ ws_task = "receiving"
    /\ ws_connected
    /\ should_run
    /\ ws_connected' = FALSE
    /\ subscribed' = {}
    /\ ws_task' = "backoff"
    /\ op' = "outage"
    /\ UNCHANGED <<feedVars, storeVars, ws_sock, should_run, reconnect_count,
                   restVars, now, nonFeedVars>>

\* _reconnect: one pass of the loop under an attempt cap; ok tells whether
\* websockets.connect succeeded
reconnect_attempt(cap, ok) ==
    /\ ws_task = "backoff"
    /\ should_run
    /\ reconnect_count < cap
    /\ now + reconnect_delay(reconnect_count + 1) <= MaxReconnectNow
    /\ now' = now + reconnect_delay(reconnect_count + 1)
    /\ IF ok
       THEN /\ ws_sock' = TRUE
            /\ ws_connected' = TRUE
            /\ reconnect_count' = 0
            /\ ws_task' = "receiving"
            /\ resubscribes' = handle_ws_connect(resubscribes)
            /\ resubscribes' <= MaxResubscribes
       ELSE /\ reconnect_count' = reconnect_count + 1
            /\ UNCHANGED <<ws_sock, ws_connected, ws_task, resubscribes>>
    /\ op' = IF ok THEN "attempt_ok" ELSE "attempt_failed"
    /\ UNCHANGED <<state, tokens, data_source, ws_healthy_since, message_queue,
                   queue_tasks, health_tasks, storeVars, should_run, subscribed,
                   restVars, nonFeedVars>>

\* _reconnect: the loop is left with the cap reached
retries_exhausted(cap) ==
    /\ ws_task = "backoff"
    /\ should_run
    /\ reconnect_count >= cap
    /\ ws_task' = "failed"
    /\ state' = handle_max_retries.state
    /\ data_source' = handle_max_retries.data_source
    /\ op' = "retries_exhausted"
    /\ UNCHANGED <<tokens, ws_healthy_since, message_queue, queue_tasks,
                   health_tasks, resubscribes, storeVars, ws_connected, ws_sock,
                   should_run, reconnect_count, subscribed, restVars, now,
                   nonFeedVars>>

NextReconnect ==
    \/ feed_start(<<token_id>>, "subscribed")
    \/ feed_stop
    \/ conn_outage
    \/ \E ok \in BOOLEAN : reconnect_attempt(DEFAULT_RECONNECT_ATTEMPTS, ok)
    \/ retries_exhausted(DEFAULT_RECONNECT_ATTEMPTS)
    \/ \E sent \in BOOLEAN : resubscribe(sent)

SpecReconnect == InitFeed /\ [][NextReconnect]_vars

(***************************************************************************)
(* The queue workers one await at a time.  _process_message applies a      *)
(* frame to the store without yielding and then awaits the user callback;  *)
(* while a coroutine callback is suspended another _process_queue task, if *)
(* there is one, can take the next frame.  start() creates a worker        *)
(* without cancelling the one a feed in ERROR still has.                   *)
(***************************************************************************)
\* the _process_queue tasks that exist
Workers(slot) == (IF slot.cur THEN 1 ELSE 0) + slot.orphans

\* a worker returns from message_queue.get() and runs _process_message up to
\* the await of the callback
worker_take ==
    /\ message_queue # << >>
    /\ Len(processing) < Workers(queue_tasks)
    /\ LET f == Head(message_queue)
       IN  /\ last_message' = record_message_received(now)
           /\ store' = ProcessedStore(store, f, now)
           /\ store'[f.asset].gap_count <= MaxGaps
           /\ processing' = Append(processing, f)
    /\ message_queue' = Tail(message_queue)
    /\ op' = "worker_take"
    /\ UNCHANGED <<state, tokens, data_source, ws_healthy_since, queue_tasks,
                   health_tasks, resubscribes, wsVars, restVars, now,
                   outsideFeedVars>>

\* the callback of the i-th frame in processing returns and its worker goes
\* back to message_queue.get()
worker_done(i) ==
    /\ i \in DOMAIN processing
    /\ processing' = [k \in 1..(Len(processing) - 1) |->
                         IF k < i THEN processing[k] ELSE processing[k + 1]]
    /\ op' = "worker_done"
    /\ UNCHANGED <<allFeedVars, now, outsideFeedVars>>

NextWorkers ==
    \/ \E outcome \in {"subscribed", "subscribe_failed", "connect_failed"} :
         feed_start(<<token_id>>, outcome)
    \/ \E f \in BookFrames : ws_message(f)
    \/ connection_lost
    \/ reconnect_fail
    \/ worker_take
    \/ \E i \in 1..(MaxOrphans + 1) : worker_done(i)
    \/ AdvanceFeedClock

SpecWorkers == InitFeed /\ [][NextWorkers]_vars

(***************************************************************************)
(* Frames whose JSON text is an array.  _process_message parses the text   *)
(* and calls data.get('event_type') on the result; a list has no get, so   *)
(* the call raises AttributeError, which _process_queue catches and logs.  *)
(***************************************************************************)
\* a frame that is an array of one or two book events of the quoter's token
ListFrames ==
    {[kind |-> "list", items |-> <<f>>] : f \in BookFrames}
        \cup {[kind |-> "list", items |-> <<f, g>>] : f \in BookFrames, g \in BookFrames}

\* _process_message on any frame: the store it leaves
process_message(st, f, t) ==
    IF f.kind = "list" THEN st ELSE ProcessedStore(st, f, t)

\* one turn of _process_queue, the frame being an object or an array
process_frame ==
    /\ Alive(queue_tasks)
    /\ message_queue # << >>
    /\ LET f == Head(message_queue)
       IN  /\ last_message' = record_message_received(now)
           /\ store' = process_message(store, f, now)
    /\ \A a \in Assets : store'[a].gap_count <= MaxGaps
    /\ message_queue' = Tail(message_queue)
    /\ op' = "process_frame"
    /\ UNCHANGED <<state, tokens, data_source, ws_healthy_since, queue_tasks,
                   health_tasks, resubscribes, wsVars, restVars, now, nonFeedVars>>

NextFrames ==
    \/ feed_start(<<token_id>>, "subscribed")
    \/ feed_stop
    \/ \E f \in BookFrames \cup ListFrames : ws_message(f)
    \/ process_frame
    \/ AdvanceFeedClock

SpecFrames == InitFeed /\ [][NextFrames]_vars

(***************************************************************************)
(* User callbacks that raise.  on_book_update, on_price_change and         *)
(* on_trade are called through _invoke_callback, inside try/except;        *)
(* on_state_change is called by _set_state directly.  ws_task = "crashed"  *)
(* is a receive/reconnect task that ended with an exception.               *)
(***************************************************************************)
\* _set_state(new_state) raises: the state changes and the callback raises
set_state_raises(old_state, new_state, raises) ==
    old_state # new_state /\ raises

\* _reconnect after the last failed attempt: on_max_retries, which is
\* _handle_max_retries; raises tells whether on_state_change raises
on_max_retries(raises) ==
    /\ ws_task = "backoff"
    /\ should_run
    /\ reconnect_count >= WS_RECONNECT_ATTEMPTS
    /\ state' = handle_max_retries.state
    /\ data_source' = handle_max_retries.data_source
    /\ ws_task' = IF set_state_raises(state, state', raises)
                  THEN "crashed" ELSE "failed"
    /\ op' = "on_max_retries"
    /\ UNCHANGED <<tokens, ws_healthy_since, message_queue, queue_tasks,
                   health_tasks, resubscribes, storeVars, ws_connected, ws_sock,
                   should_run, reconnect_count, subscribed, restVars, now,
                   nonFeedVars>>

\* one turn of _process_queue on a book frame; raises tells whether
\* on_book_update raises, which _invoke_callback catches and logs
invoke_callback(raises) ==
    /\ Alive(queue_tasks)
    /\ message_queue # << >>
    /\ LET f == Head(message_queue)
       IN  /\ last_message' = record_message_received(now)
           /\ store' = ProcessedStore(store, f, now)
           /\ store'[f.asset].gap_count <= MaxGaps
    /\ message_queue' = Tail(message_queue)
    /\ queue_tasks' = queue_tasks
    /\ op' = IF raises THEN "callback_raised" ELSE "callback_returned"
    /\ UNCHANGED <<state, tokens, data_source, ws_healthy_since, health_tasks,
                   resubscribes, wsVars, restVars, now, nonFeedVars>>

NextCallbacks ==
    \/ \E outcome \in {"subscribed", "subscribe_failed", "connect_failed"} :
         feed_start(<<token_id>>, outcome)
    \/ \E f \in BookFrames : ws_message(f)
    \/ \E raises \in BOOLEAN : invoke_callback(raises)
    \/ connection_lost
    \/ reconnect_fail
    \/ \E raises \in BOOLEAN : on_max_retries(raises)
    \/ AdvanceFeedClock

SpecCallbacks == InitFeed /\ [][NextCallbacks]_vars

(***************************************************************************)
(* MarketMakerPool (src/src/strategy/pool.py)                              *)
(***************************************************************************)
\* the pool in the model takes two markets (PoolConfig.max_markets)
max_markets == 2

nonPoolVars == <<enforce, killed, kill_reason, errors, cooldown_until, daily_pnl,
                 risk_events, limit_mult, now, ret, underlying, simVars,
                 simCallVars, workerVars, quoterVars, feedViewVars, allFeedVars,
                 componentVars>>

\* MarketMakerPool.markets, market_count and active_markets
markets == {t \in PoolTokens : pool_markets[t].present}
market_count == Cardinality(markets)
active_markets == {t \in markets : pool_markets[t].is_active}

\* add_market(token_id): raises at capacity, nothing for a known token
add_market(t) ==
    /\ IF market_count >= max_markets
       THEN /\ op' = "add_market_raised"
            /\ UNCHANGED pool_markets
       ELSE /\ op' = "add_market"
            /\ pool_markets' =
                   IF t \in markets THEN pool_markets
                   ELSE [pool_markets EXCEPT ![t] = [present |-> TRUE, is_active |-> FALSE]]
    /\ UNCHANGED <<market_makers, pool_tasks, pool_running, nonPoolVars>>

\* remove_market(token_id): the task is cancelled and forgotten, the market
\* maker stopped and forgotten, the market deleted
remove_market(t) ==
    /\ t \in markets
    /\ pool_tasks' = [pool_tasks EXCEPT ![t] = "none"]
    /\ market_makers' = market_makers \ {t}
    /\ pool_markets' = [pool_markets EXCEPT ![t] = [present |-> FALSE, is_active |-> FALSE]]
    /\ op' = "remove_market"
    /\ UNCHANGED <<pool_running, nonPoolVars>>

\* start(): a market maker and a task for every market; failing holds the
\* tokens for which _create_market_maker raises
pool_start(failing) ==
    /\ ~pool_running
    /\ pool_running' = TRUE
    /\ market_makers' = market_makers \cup (markets \ failing)
    /\ pool_tasks' = [t \in PoolTokens |->
                         IF t \in markets \ failing THEN "running" ELSE pool_tasks[t]]
    /\ pool_markets' = [t \in PoolTokens |->
                           IF t \in markets \ failing
                           THEN [pool_markets[t] EXCEPT !.is_active = TRUE]
                           ELSE pool_markets[t]]
    /\ op' = "pool_start"
    /\ UNCHANGED nonPoolVars

\* stop(): every market maker stopped, every task cancelled and awaited
pool_stop ==
    /\ pool_running
    /\ pool_running' = FALSE
    /\ pool_tasks' = [t \in PoolTokens |-> "none"]
    /\ market_makers' = {}
    /\ pool_markets' = [t \in PoolTokens |-> [pool_markets[t] EXCEPT !.is_active = FALSE]]
    /\ op' = "pool_stop"
    /\ UNCHANGED nonPoolVars

\* a mutation of run_market_failed: the market stays active
run_market_failed_StaysActive(t) ==
    /\ pool_tasks[t] = "running"
    /\ pool_tasks' = [pool_tasks EXCEPT ![t] = "failed"]
    /\ market_makers' = market_makers \ {t}
    /\ op' = "run_market_failed"
    /\ UNCHANGED <<pool_markets, pool_running, nonPoolVars>>

\* _run_market: mm.run() raised
run_market_failed(t) ==
    /\ pool_tasks[t] = "running"
    /\ pool_tasks' = [pool_tasks EXCEPT ![t] = "failed"]
    /\ pool_markets' = [pool_markets EXCEPT ![t].is_active = FALSE]
    /\ market_makers' = market_makers \ {t}
    /\ op' = "run_market_failed"
    /\ UNCHANGED <<pool_running, nonPoolVars>>

\* _run_market: mm.run() returned
run_market_returned(t) ==
    /\ pool_tasks[t] = "running"
    /\ pool_tasks' = [pool_tasks EXCEPT ![t] = "returned"]
    /\ market_makers' = market_makers \ {t}
    /\ op' = "run_market_returned"
    /\ UNCHANGED <<pool_markets, pool_running, nonPoolVars>>

NextPool ==
    \/ \E t \in PoolTokens : add_market(t)
    \/ \E t \in PoolTokens : remove_market(t)
    \/ \E failing \in SUBSET PoolTokens : pool_start(failing)
    \/ pool_stop
    \/ \E t \in PoolTokens : run_market_failed(t)
    \/ \E t \in PoolTokens : run_market_returned(t)

SpecPool == InitRisk /\ [][NextPool]_vars

(***************************************************************************)
(* DataStore.check_sequence taken by itself (src/src/feed/data_store.py)   *)
(***************************************************************************)
\* everything but the feed's store, op and the call record
nonStoreCallVars == <<enforce, killed, kill_reason, errors, cooldown_until,
                      daily_pnl, risk_events, limit_mult, now, ret, underlying,
                      simVars, simCallVars, workerVars, quoterVars, feedViewVars,
                      feedVars, last_message, wsVars, restVars, poolVars,
                      timerVars, limiterVars, pollerVars, arbVars>>

\* the sequence numbers handed to check_sequence: none (0), the sentinel's
\* value and small numbers
SeqInputs == {0, NoSequence, 1, 2, 3}

\* DataStore.check_sequence(token_id, seq)
store_check_sequence(a, seq) ==
    /\ store' = check_sequence(store, a, seq)
    /\ store'[a].gap_count <= MaxGaps
    /\ last_call' = [name |-> "check_sequence", asset |-> a, seq |-> seq,
                     ret |-> check_sequence_returns(store, a, seq)]
    /\ op' = "check_sequence"
    /\ UNCHANGED nonStoreCallVars

\* DataStore.clear_gaps(token_id)
store_clear_gaps(a) ==
    /\ store' = clear_gaps(store, a)
    /\ last_call' = [name |-> "clear_gaps", asset |-> a]
    /\ op' = "clear_gaps"
    /\ UNCHANGED nonStoreCallVars

NextSequence ==
    \/ \E a \in Assets, seq \in SeqInputs : store_check_sequence(a, seq)
    \/ \E a \in Assets : store_clear_gaps(a)

SpecSequence == InitFeed /\ [][NextSequence]_vars

(***************************************************************************)
(* AdaptiveTimer (src/src/strategy/timing.py).  Time in seconds, price     *)
(* changes in basis points.                                                *)
(***************************************************************************)
\* everything outside the components taken by themselves, but now and op
outsideComponents == <<enforce, killed, kill_reason, errors, cooldown_until,
                       daily_pnl, risk_events, limit_mult, ret, underlying,
                       simVars, simCallVars, workerVars, quoterVars, feedViewVars,
                       allFeedVars, poolVars>>

\* the other components
nonTimerVars == <<limiterVars, pollerVars, arbVars>>

\* |pct_change| handed to record_price_change, in basis points
PctInputs == {0, 50, 100, 200}
\* (current, avg) handed to record_volume
VolumeInputs == {<<100, 0>>, <<100, 100>>, <<200, 100>>}
\* seconds_since_last handed to record_activity
ActivityInputs == {30, 60}

\* a mutation of fast_expired: FAST never expires
fast_expired_Never(t, trigger) == FALSE

\* record_price_change: FAST has lasted longer than fast_mode_duration
fast_expired(t, trigger) == t - trigger > fast_mode_duration

\* get_interval(), in tenths of a second
get_interval ==
    IF timer_mode = "FAST" THEN fast_interval
    ELSE IF timer_mode = "SLEEP" THEN sleep_interval
    ELSE base_interval

\* record_price_change(pct_change)
record_price_change(pct) ==
    /\ last_activity' = now
    /\ IF Abs(pct) >= volatility_threshold
       THEN /\ timer_mode' = "FAST"
            /\ last_fast_trigger' = now
       ELSE /\ timer_mode' = IF timer_mode = "FAST"
                                 /\ fast_expired(now, last_fast_trigger)
                             THEN "NORMAL" ELSE timer_mode
            /\ UNCHANGED last_fast_trigger
    /\ last_call' = [name |-> "record_price_change", arg |-> pct,
                     before |-> timer_mode]
    /\ op' = "record_price_change"
    /\ UNCHANGED <<now, outsideComponents, nonTimerVars>>

\* record_volume(current, avg)
record_volume(current, avg) ==
    /\ last_activity' = now
    /\ IF avg > 0 /\ current >= volume_spike_ratio * avg
       THEN /\ timer_mode' = "FAST"
            /\ last_fast_trigger' = now
       ELSE UNCHANGED <<timer_mode, last_fast_trigger>>
    /\ last_call' = [name |-> "record_volume", arg |-> <<current, avg>>,
                     before |-> timer_mode]
    /\ op' = "record_volume"
    /\ UNCHANGED <<now, outsideComponents, nonTimerVars>>

\* record_activity(seconds_since_last)
record_activity(seconds) ==
    /\ IF seconds >= inactivity_threshold
       THEN /\ timer_mode' = IF timer_mode # "FAST" THEN "SLEEP" ELSE timer_mode
            /\ UNCHANGED last_activity
       ELSE /\ timer_mode' = IF timer_mode = "SLEEP" THEN "NORMAL" ELSE timer_mode
            /\ last_activity' = now
    /\ last_call' = [name |-> "record_activity", arg |-> seconds,
                     before |-> timer_mode]
    /\ op' = "record_activity"
    /\ UNCHANGED <<last_fast_trigger, now, outsideComponents, nonTimerVars>>

\* on_feed_update(has_data)
on_feed_update(has_data) ==
    /\ IF has_data
       THEN /\ last_activity' = now
            /\ timer_mode' = IF timer_mode = "SLEEP" THEN "NORMAL" ELSE timer_mode
       ELSE UNCHANGED <<last_activity, timer_mode>>
    /\ last_call' = [name |-> "on_feed_update", arg |-> has_data,
                     before |-> timer_mode]
    /\ op' = "on_feed_update"
    /\ UNCHANGED <<last_fast_trigger, now, outsideComponents, nonTimerVars>>

\* time passes
AdvanceTimerClock ==
    /\ now + TimerClockStep <= MaxTimerNow
    /\ now' = now + TimerClockStep
    /\ op' = "clock"
    /\ UNCHANGED <<componentVars, outsideComponents>>

\* a loop price change that is no trigger, as the loop of the class's usage
\* note reports one every iteration
QuietPriceChange ==
    \E pct \in {p \in PctInputs : p < volatility_threshold} : record_price_change(pct)

NextTimer ==
    \/ \E pct \in PctInputs : record_price_change(pct)
    \/ \E v \in VolumeInputs : record_volume(v[1], v[2])
    \/ \E seconds \in ActivityInputs : record_activity(seconds)
    \/ \E has_data \in BOOLEAN : on_feed_update(has_data)
    \/ AdvanceTimerClock

TimerFairness == WF_vars(QuietPriceChange)

SpecTimer == InitFeed /\ [][NextTimer]_vars /\ TimerFairness

(***************************************************************************)
(* RateLimiter (src/src/rate_limiter.py), its asynchronous wait().  Time   *)
(* in milliseconds.  asyncio.Lock hands the lock to its waiters in the     *)
(* order they asked; asyncio.sleep returns at or after the time asked.     *)
(***************************************************************************)
nonLimiterVars == <<timerVars, pollerVars, arbVars>>

\* the coroutines that call wait()
Callers == {"a", "b", "c"}

\* a mutation of min_interval: half the interval
min_interval_Halved == 500 \div calls_per_second

\* self._min_interval = 1.0 / calls_per_second
min_interval == 1000 \div calls_per_second

\* the holder of the lock returns from wait(): _last_call, then the lock goes
\* to the next waiter
wait_returns(c, queue) ==
    /\ limiter_last' = now
    /\ lock_queue' = queue
    /\ holder_wake' = 0
    /\ last_call' = [name |-> "wait", caller |-> c, at |-> now]
    /\ op' = "wait_return"

\* the holder of the lock finds too little time elapsed and sleeps
wait_sleeps(queue) ==
    /\ holder_wake' = now + (min_interval - (now - limiter_last))
    /\ lock_queue' = queue
    /\ op' = "wait_sleep"
    /\ UNCHANGED <<limiter_last, last_call>>

\* c calls wait(): with the lock free it runs on to its return or its
\* sleep, otherwise it joins the waiters
wait_call(c) ==
    /\ \A i \in DOMAIN lock_queue : lock_queue[i] # c
    /\ IF lock_queue = << >>
       THEN IF now - limiter_last < min_interval
            THEN wait_sleeps(<<c>>)
            ELSE wait_returns(c, << >>)
       ELSE /\ lock_queue' = Append(lock_queue, c)
            /\ op' = "wait_queued"
            /\ UNCHANGED <<limiter_last, holder_wake, last_call>>
    /\ UNCHANGED <<now, outsideComponents, nonLimiterVars>>

\* the waiter that was handed the lock runs: its return or its sleep
wait_acquired ==
    /\ lock_queue # << >>
    /\ holder_wake = 0
    /\ IF now - limiter_last < min_interval
       THEN wait_sleeps(lock_queue)
       ELSE wait_returns(Head(lock_queue), Tail(lock_queue))
    /\ UNCHANGED <<now, outsideComponents, nonLimiterVars>>

\* the holder's sleep is over
wait_wakes ==
    /\ lock_queue # << >>
    /\ holder_wake # 0
    /\ now >= holder_wake
    /\ wait_returns(Head(lock_queue), Tail(lock_queue))
    /\ UNCHANGED <<now, outsideComponents, nonLimiterVars>>

\* time passes
AdvanceLimiterClock ==
    /\ now + LimiterClockStep <= MaxLimiterNow
    /\ now' = now + LimiterClockStep
    /\ op' = "clock"
    /\ UNCHANGED <<componentVars, outsideComponents>>

\* the limiter is constructed when the clock already shows a time
InitLimiter ==
    /\ RiskInit /\ now = LimiterStart
    /\ SimInit /\ QuoterInit /\ FeedViewInit /\ FeedInit /\ PoolInit
    /\ ComponentInit

NextLimiter ==
    \/ \E c \in Callers : wait_call(c)
    \/ wait_acquired
    \/ wait_wakes
    \/ AdvanceLimiterClock

SpecLimiter == InitLimiter /\ [][NextLimiter]_vars

(***************************************************************************)
(* TradesPoller (src/src/feed/trades_poller.py).  The API keeps an asset's *)
(* trades and answers get_trades with its PageSize most recent ones, the   *)
(* most recent first; a trade's id is its rank in time.                    *)
(***************************************************************************)
nonPollerVars == <<timerVars, limiterVars, arbVars>>

\* the answer of client.get_trades for asset a
get_trades(a) ==
    LET n == Len(api_trades[a])
    IN  [i \in 1..Min(PageSize, n) |-> api_trades[a][n - i + 1]]

\* a mutation of new_trades: the scan does not stop at the last seen trade
RECURSIVE new_trades_All(_, _)
new_trades_All(page, last_seen) ==
    IF page = << >> THEN << >>
    ELSE <<Head(page)>> \o new_trades_All(Tail(page), last_seen)

\* _poll_token: the trades of the answer up to the last one seen
RECURSIVE new_trades(_, _)
new_trades(page, last_seen) ==
    IF page = << >> \/ Head(page).id = last_seen THEN << >>
    ELSE <<Head(page)>> \o new_trades(Tail(page), last_seen)

\* reversed(new_trades) through _process_trade: the ids whose callbacks are
\* invoked, a trade without price or size being skipped
RECURSIVE notified(_)
notified(page) ==
    IF page = << >> THEN << >>
    ELSE notified(Tail(page))
             \o (IF Head(page).priced THEN <<Head(page).id>> ELSE << >>)

\* a trade on asset a reaches the API
api_trade(a, priced) ==
    /\ Len(api_trades[a]) < MaxApiTrades
    /\ api_trades' = [api_trades EXCEPT
                         ![a] = Append(@, [id |-> Len(@) + 1, priced |-> priced])]
    /\ op' = "api_trade"
    /\ UNCHANGED <<last_trade_ids, delivered, last_call, now, outsideComponents,
                   nonPollerVars>>

\* _poll_token(a); failed: get_trades raised
poll_token(a, failed) ==
    /\ IF failed \/ get_trades(a) = << >>
       THEN UNCHANGED <<last_trade_ids, delivered>>
       ELSE /\ last_trade_ids' = [last_trade_ids EXCEPT ![a] = get_trades(a)[1].id]
            /\ delivered' = [delivered EXCEPT
                   ![a] = @ \o notified(new_trades(get_trades(a), last_trade_ids[a]))]
    /\ last_call' = [name |-> "poll_token", asset |-> a, failed |-> failed]
    /\ op' = "poll_token"
    /\ UNCHANGED <<api_trades, now, outsideComponents, nonPollerVars>>

NextPoller ==
    \/ \E a \in Assets, priced \in BOOLEAN : api_trade(a, priced)
    \/ \E a \in Assets, failed \in BOOLEAN : poll_token(a, failed)

SpecPoller == InitFeed /\ [][NextPoller]_vars

(***************************************************************************)
(* ArbitrageDetector (src/src/alpha/arbitrage.py).  Prices in thousandths  *)
(* of a dollar, 0 standing for no price (None).                            *)
(***************************************************************************)
nonArbVars == <<timerVars, limiterVars, pollerVars>>

\* the prices price_getter gives, the tokens and the base quotes handed to
\* get_quote_adjustment
ArbPrices == {0, 500, 501, 502, 504}
ArbTokens == {"t1", "t2", "t3", "t4", "t5"}
BaseQuotes == {<<480, 520>>}
\* NO tokens at 500 or without a price, YES tokens at any price
ScanPrices ==
    {prices \in [ArbTokens -> ArbPrices] :
        prices["t2"] \in {0, 500} /\ prices["t4"] = 500 /\ prices["t5"] = 0}

\* check_pair(yes_price, no_price, pair)
check_pair(yes_price, no_price) ==
    LET sum_price == yes_price + no_price
        deviation == sum_price - 1000
        deviation_bps == Abs(deviation) * 10
        fee_cost_bps == (fee_rate * 2 * 10000) \div 1000
        net_profit_bps == deviation_bps - fee_cost_bps
    IN  IF deviation > 0 /\ net_profit_bps >= min_profit_bps
        THEN [type |-> "SELL_BOTH", sum_price |-> sum_price, profit_bps |-> net_profit_bps]
        ELSE IF deviation < 0 /\ net_profit_bps >= min_profit_bps
        THEN [type |-> "BUY_BOTH", sum_price |-> sum_price, profit_bps |-> net_profit_bps]
        ELSE IF deviation_bps >= SKEW_THRESHOLD_BPS
        THEN [type |-> "SKEW_QUOTES", sum_price |-> sum_price, profit_bps |-> deviation_bps]
        ELSE [type |-> "NONE", sum_price |-> sum_price, profit_bps |-> 0]

\* ArbitrageSignal.is_actionable
is_actionable(signal) == signal.type # "NONE" /\ signal.profit_bps > 10

\* register_pair(pair)
register_pair(c) ==
    /\ arb_pairs' = arb_pairs \cup {c}
    /\ last_call' = [name |-> "register_pair", condition_id |-> c]
    /\ op' = "register_pair"
    /\ UNCHANGED <<last_signals, last_computed, now, outsideComponents, nonArbVars>>

\* scan_all(price_getter); prices is what price_getter gives per token
scan_all(prices) ==
    /\ LET scanned == {c \in arb_pairs : prices[Pairs[c].yes_token_id] # 0
                                          /\ prices[Pairs[c].no_token_id] # 0}
           signal(c) == check_pair(prices[Pairs[c].yes_token_id],
                                   prices[Pairs[c].no_token_id])
       IN  /\ last_computed' = [c \in DOMAIN Pairs |->
                                   IF c \in scanned THEN signal(c) ELSE last_computed[c]]
           /\ last_signals' = [c \in DOMAIN Pairs |->
                                  IF c \in scanned /\ is_actionable(signal(c))
                                  THEN signal(c) ELSE last_signals[c]]
           /\ last_call' = [name |-> "scan_all",
                            ret |-> {signal(c) : c \in {d \in scanned : is_actionable(signal(d))}}]
    /\ op' = "scan_all"
    /\ UNCHANGED <<arb_pairs, now, outsideComponents, nonArbVars>>

\* what get_quote_adjustment returns
quote_adjustment(tok, base_bid, base_ask) ==
    LET skewing == {c \in arb_pairs :
                      /\ tok \in {Pairs[c].yes_token_id, Pairs[c].no_token_id}
                      /\ last_signals[c].type = "SKEW_QUOTES"}
    IN  IF skewing = {} THEN <<base_bid, base_ask>>
        ELSE LET c == CHOOSE d \in skewing : TRUE
             IN  IF last_signals[c].sum_price > 1000
                 THEN <<base_bid - skew, base_ask - skew * 2>>
                 ELSE <<base_bid + skew * 2, base_ask + skew>>

\* get_quote_adjustment(token_id, base_bid, base_ask)
get_quote_adjustment(tok, base_bid, base_ask) ==
    /\ last_call' = [name |-> "get_quote_adjustment", token_id |-> tok,
                     base |-> <<base_bid, base_ask>>,
                     ret |-> quote_adjustment(tok, base_bid, base_ask)]
    /\ op' = "get_quote_adjustment"
    /\ UNCHANGED <<arbVars, now, outsideComponents, nonArbVars>>

NextArbitrage ==
    \/ \E c \in DOMAIN Pairs : register_pair(c)
    \/ \E prices \in ScanPrices : scan_all(prices)
    \/ \E tok \in ArbTokens, q \in BaseQuotes : get_quote_adjustment(tok, q[1], q[2])

SpecArbitrage == InitFeed /\ [][NextArbitrage]_vars

(***************************************************************************)
(* The simulator on its own (src/src/simulator.py), driven through its     *)
(* public methods.  Orders reach create_order through                      *)
(* trading.place_order, which validates price and size.                    *)
(***************************************************************************)
SimPrices == {50}
SimSizes == {MIN_ORDER_SIZE, MIN_ORDER_SIZE + 1}
SimBooks == {[bid |-> 48, ask |-> 49], [bid |-> 49, ask |-> 50],
             [bid |-> 49, ask |-> 51], [bid |-> 50, ask |-> 51],
             [bid |-> 51, ask |-> 52]}

nonSimVars == <<enforce, killed, kill_reason, errors, cooldown_until, daily_pnl,
                risk_events, limit_mult, now, ret, underlying, quoterVars,
                feedViewVars, allFeedVars, workerVars, poolVars, componentVars>>

\* simulator.create_order(token, side, price, size)
sim_create_order(token, side, price, size) ==
    /\ Len(orders) < MaxSimOrders
    /\ orders' = create_order(orders, token, side, price, size)
    /\ sim_call' = [name |-> "create_order", order_id |-> Len(orders) + 1]
    /\ op' = "create_order"
    /\ UNCHANGED <<trades, positions, nonSimVars>>

\* simulator.cancel_order(order_id); an id beyond the map is an unknown id
sim_cancel_order(order_id) ==
    /\ orders' = cancel_order(orders, order_id)
    /\ sim_call' = [name |-> "cancel_order", order_id |-> order_id,
                     ret |-> cancel_order_returns(orders, order_id)]
    /\ op' = "cancel_order"
    /\ UNCHANGED <<trades, positions, nonSimVars>>

\* simulator.cancel_all(token)
sim_cancel_all(token) ==
    /\ orders' = cancel_all(orders, token)
    /\ sim_call' = [name |-> "cancel_all", token |-> token,
                     ret |-> cancel_all_returns(orders, token)]
    /\ op' = "cancel_all"
    /\ UNCHANGED <<trades, positions, nonSimVars>>

\* simulator.check_fills(token, best_bid, best_ask)
sim_check_fills(token, b) ==
    /\ LET sim == check_fills([orders |-> orders, trades |-> trades,
                               positions |-> positions], token, b.bid, b.ask)
       IN  /\ orders' = sim.orders
           /\ trades' = sim.trades
           /\ positions' = sim.positions
    /\ sim_call' = [name |-> "check_fills", token |-> token, bid |-> b.bid,
                     ask |-> b.ask]
    /\ op' = "check_fills"
    /\ UNCHANGED nonSimVars

\* simulator.reset()
sim_reset ==
    /\ orders' = << >>
    /\ trades' = << >>
    /\ positions' = [a \in Assets |-> 0]
    /\ sim_call' = [name |-> "reset"]
    /\ op' = "reset"
    /\ UNCHANGED nonSimVars

InitSim ==
    /\ RiskInit /\ enforce /\ now = 0
    /\ SimInit /\ QuoterInit /\ FeedViewInit /\ FeedInit /\ PoolInit
    /\ ComponentInit

NextSim ==
    \/ \E token \in Assets, side \in {"BUY", "SELL"}, price \in SimPrices,
          size \in SimSizes : sim_create_order(token, side, price, size)
    \/ \E order_id \in 1..(MaxSimOrders + 1) : sim_cancel_order(order_id)
    \/ \E token \in Assets \cup {""} : sim_cancel_all(token)
    \/ \E token \in Assets, b \in SimBooks : sim_check_fills(token, b)
    \/ sim_reset

SpecSim == InitSim /\ [][NextSim]_vars

(***************************************************************************)
(* Risk manager: properties                                                *)
(***************************************************************************)
\* C1: once the kill switch is set, every check() returns STOP, in either mode
\* and whatever else is called, and only reset_kill_switch() clears the switch.
C1_KillSwitchLatch ==
    [][killed => /\ (op' = "check" => ret'.status = "STOP")
                 /\ (~killed' => op' = "reset_kill_switch")]_vars

C1_Witness ==
    killed /\ ~enforce /\ op = "check" /\ ret.status = "STOP" /\ daily_pnl = 0

C3_DataGatherLogsOnce ==
    [][(op' = "check" /\ ~enforce /\ ~killed)
         => /\ ret'.status = "OK"
            /\ IF underlying'.status \in {"WARN", "STOP"}
               THEN risk_events' = Append(risk_events,
                        [status |-> underlying'.status, enforced |-> FALSE])
               ELSE underlying'.status = "OK" /\ risk_events' = risk_events]_vars

C3_Witness ==
    /\ ~enforce /\ ~killed /\ op = "check" /\ underlying.status = "STOP"
    /\ ret.status = "OK" /\ Len(risk_events) = 2
    /\ risk_events[2] = [status |-> "STOP", enforced |-> FALSE]

(***************************************************************************)
(* Quoter: properties                                                      *)
(***************************************************************************)
\* the LIVE orders on the quoter's asset
LiveQuotes(ords) == {i \in DOMAIN ords : ords[i].token_id = token_id /\ is_live(ords[i])}

C7_Original ==
    is_healthy <=>
        /\ state = "RUNNING"
        /\ last_message # Never /\ now - last_message < HEARTBEAT_LIMIT
        /\ \A a \in TokenSet(tokens) :
              /\ store[a].tracked /\ store[a].last_update # Never
              /\ now - store[a].last_update < stale_threshold
        /\ (data_source = "websocket" => \A a \in Assets : store[a].gap_count = 0)

\* C7: is_healthy is true exactly when the feed is RUNNING, the heartbeat is
\* at most 45 s old, the store tracks at least one asset and every asset it
\* tracks (each subscribed asset, and each asset a book frame came for) is
\* fresh and, on the WebSocket source, no gap is uncleared.
C7_HealthyIff ==
    is_healthy <=>
        /\ state = "RUNNING"
        /\ last_message # Never /\ now - last_message <= HEARTBEAT_LIMIT
        /\ \E a \in Assets : store[a].tracked
        /\ \A a \in Assets : store[a].tracked =>
              /\ store[a].last_update # Never
              /\ now - store[a].last_update < stale_threshold
        /\ (data_source = "websocket" => \A a \in Assets : store[a].gap_count = 0)

\* the feed is healthy on REST snapshots with a heartbeat exactly 45 s old
C7_Witness ==
    /\ is_healthy
    /\ data_source = "rest"
    /\ now - last_message = HEARTBEAT_LIMIT

\* C8 as the specification words it: running on the REST fallback alone, with
\* a fresh snapshot of every subscribed asset, the feed is healthy.
C8_RestFallbackHealthy ==
    (/\ state = "RUNNING"
     /\ data_source = "rest"
     /\ rest_running
     /\ ~ws_is_connected
     /\ tokens # << >>
     /\ \A a \in TokenSet(tokens) : is_fresh(store, a, now))
    => is_healthy

C10_Original ==
    [][(\/ (data_source = "rest" /\ data_source' = "websocket")
        \/ (rest_running /\ ~rest_running' /\ op' # "feed_stop"))
        => /\ op' = "health_monitor"
           /\ ws_healthy
           /\ ws_healthy_since' # Never
           /\ now - ws_healthy_since' >= rest_recovery_delay]_vars

(***************************************************************************)
(* C11: a sequence gap recorded while the source is the WebSocket is       *)
(* eventually cleared by a REST resync, so that while frames keep being    *)
(* processed the feed does not stay unhealthy forever because of the gap.  *)
(* The only clear_gaps call is in the REST poller, and the monitor starts  *)
(* the poller only when the WebSocket is disconnected or stale.            *)
(***************************************************************************)
GapOnWebSocket == state = "RUNNING" /\ data_source = "websocket" /\ has_gaps(store)

C11_GapEventuallyCleared ==
    ([]<>(op = "process_queue")) => (GapOnWebSocket ~> ~GapOnWebSocket)

(***************************************************************************)
(* C12: after any sequence of create_order, cancel_order, cancel_all and   *)
(* check_fills every simulator order has 0 <= filled <= size; a MATCHED    *)
(* order is filled for its whole size and a CANCELLED order for less than  *)
(* its size.                                                               *)
(***************************************************************************)
C12_OrderInvariants ==
    \A i \in DOMAIN orders :
        /\ 0 <= orders[i].filled /\ orders[i].filled <= orders[i].size
        /\ orders[i].status = "MATCHED" => orders[i].filled = orders[i].size
        /\ orders[i].status = "CANCELLED" => orders[i].filled < orders[i].size

C12_Witness ==
    /\ op = "cancel_all"
    /\ \E i, j \in DOMAIN orders :
          /\ orders[i].status = "MATCHED" /\ orders[i].size = MIN_ORDER_SIZE + 1
          /\ orders[j].status = "CANCELLED"

(***************************************************************************)
(* C13: for every asset the cached position equals the BUY trade sizes     *)
(* minus the SELL trade sizes of that asset.                               *)
(***************************************************************************)
RECURSIVE NetTraded(_, _)
NetTraded(trs, a) ==
    IF trs = << >> THEN 0
    ELSE LET t == trs[Len(trs)]
             rest == NetTraded(SubSeq(trs, 1, Len(trs) - 1), a)
         IN  IF t.token_id # a THEN rest
             ELSE IF t.side = "BUY" THEN rest + t.size ELSE rest - t.size

C13_PositionIsNetTrades == \A a \in Assets : get_position(a) = NetTraded(trades, a)

C13_Witness ==
    /\ op = "check_fills"
    /\ \E i, j \in DOMAIN trades :
          /\ trades[i].token_id = token_id /\ trades[i].side = "BUY"
          /\ trades[j].token_id = token_id /\ trades[j].side = "SELL"
    /\ get_position(token_id) = 1

(***************************************************************************)
(* C14: check_fills(asset, bid, ask) fills a LIVE order of that asset      *)
(* exactly when it is a BUY priced at or above the ask or a SELL priced at *)
(* or below the bid.  A filled order is matched for its whole size, marked *)
(* MATCHED and produces exactly one trade at its own price; orders of      *)
(* other assets and orders that are not LIVE are left untouched.           *)
(***************************************************************************)
Crosses(order, call) ==
    /\ order.status = "LIVE"
    /\ order.token_id = call.token
    /\ \/ order.side = "BUY" /\ order.price >= call.ask
       \/ order.side = "SELL" /\ order.price <= call.bid

NewTradesOf(i) ==
    {k \in (Len(trades) + 1)..Len(trades') : trades'[k].order_id = i}

C14_FillsExactlyCrossing ==
    [][op' = "check_fills" =>
        /\ DOMAIN orders' = DOMAIN orders
        /\ SubSeq(trades', 1, Len(trades)) = trades
        /\ \A i \in DOMAIN orders :
              IF Crosses(orders[i], sim_call')
              THEN /\ orders'[i] = [orders[i] EXCEPT !.filled = orders[i].size,
                                                      !.status = "MATCHED"]
                   /\ Cardinality(NewTradesOf(i)) = 1
                   /\ \A k \in NewTradesOf(i) :
                         /\ trades'[k].price = orders[i].price
                         /\ trades'[k].size = orders[i].size
                         /\ trades'[k].side = orders[i].side
                         /\ trades'[k].token_id = orders[i].token_id
              ELSE /\ orders'[i] = orders[i]
                   /\ NewTradesOf(i) = {}]_vars

\* a BUY at the ask has just been filled while a crossing order of the other
\* asset stays LIVE
C14_Witness ==
    /\ op = "check_fills"
    /\ trades # << >>
    /\ LET t == trades[Len(trades)]
       IN  /\ t.side = "BUY" /\ t.price = sim_call.ask /\ t.token_id = sim_call.token
           /\ orders[t.order_id].status = "MATCHED"
    /\ \E j \in DOMAIN orders :
          /\ orders[j].status = "LIVE"
          /\ orders[j].token_id # sim_call.token
          /\ orders[j].side = "BUY"

(***************************************************************************)
(* C15: cancel_order returns true and marks the order CANCELLED exactly    *)
(* when the order exists and is LIVE; for an unknown, MATCHED or already   *)
(* CANCELLED order it returns false and changes nothing.  cancel_order and *)
(* cancel_all only ever move an order from LIVE to CANCELLED.              *)
(***************************************************************************)
C15_CancelOnlyLive ==
    [][/\ op' = "cancel_order" =>
            LET id == sim_call'.order_id
                live == id \in DOMAIN orders /\ orders[id].status = "LIVE"
            IN  /\ sim_call'.ret = live
                /\ IF live
                   THEN orders' = [orders EXCEPT ![id].status = "CANCELLED"]
                   ELSE orders' = orders
       /\ op' \in {"cancel_order", "cancel_all"} =>
            /\ DOMAIN orders' = DOMAIN orders
            /\ trades' = trades /\ positions' = positions
            /\ \A i \in DOMAIN orders :
                  orders'[i] # orders[i] =>
                     /\ orders[i].status = "LIVE"
                     /\ orders'[i] = [orders[i] EXCEPT !.status = "CANCELLED"]]_vars

\* cancel_order has just refused a MATCHED order
C15_Witness ==
    /\ op = "cancel_order"
    /\ sim_call.order_id \in DOMAIN orders
    /\ orders[sim_call.order_id].status = "MATCHED"
    /\ sim_call.ret = FALSE

(***************************************************************************)
(* C16: on a tick that passes the risk gate and the feed gate and has a    *)
(* mid, the quoter cancels and replaces its quotes if and only if it has   *)
(* no open quote or the mid has moved by at least requote_threshold since  *)
(* last_mid; last_mid is updated exactly on those ticks.  An open quote is *)
(* a quote of the quoter that is LIVE after the fill check of the tick.    *)
(***************************************************************************)
OpenQuotes(q) ==
    {id \in {q.bid_order, q.ask_order} \ {NoOrder} : is_live(q.orders[id])}

AfterFillCheck(q) ==
    LET sim == check_fills([orders |-> q.orders, trades |-> q.trades,
                            positions |-> q.positions], token_id, book.bid, book.ask)
    IN  [q EXCEPT !.orders = sim.orders, !.trades = sim.trades,
                  !.positions = sim.positions]

MidMoved(mid) ==
    last_mid # NoMid /\ Abs(mid - last_mid) >= 2 * MM_REQUOTE_THRESHOLD

C16_RequoteIffNoOpenQuotes ==
    [][(/\ op' = "tick"
        /\ ret'.status # "STOP"
        /\ q_feed = "running" /\ feed_healthy
        /\ Midpoint(book) # NoMid) =>
          LET mid == Midpoint(book)
              q1 == AfterFillCheck(QState)
          IN  IF OpenQuotes(q1) = {} \/ MidMoved(mid)
              THEN /\ last_mid' = mid
                   /\ QState' = [update_quotes(q1, mid) EXCEPT !.last_mid = mid]
              ELSE /\ last_mid' = last_mid
                   /\ QState' = q1]_vars

(***************************************************************************)
(* C17: in enforce mode, when check() finds that the errors of the last 60 *)
(* seconds number at least max_errors_per_minute it enters a cooldown of   *)
(* error_cooldown seconds and returns STOP, and every check() made while   *)
(* the cooldown lasts returns STOP.                                        *)
(***************************************************************************)
ErrorsInLastMinute == Cardinality({i \in DOMAIN errors : now - errors[i] < 60})

C17_ErrorCooldown ==
    [][(op' = "check" /\ enforce) =>
          /\ now < cooldown_until =>
                ret'.status = "STOP" /\ cooldown_until' = cooldown_until
          /\ (~killed /\ now >= cooldown_until
                /\ ErrorsInLastMinute >= max_errors_per_minute) =>
                /\ cooldown_until' = now + error_cooldown
                /\ ret' = [status |-> "STOP", reason |-> "error_rate"]]_vars

\* a check made later in the cooldown than the one that started it
C17_Witness ==
    /\ op = "check" /\ enforce /\ ~killed
    /\ ret = [status |-> "STOP", reason |-> "cooldown"]
    /\ cooldown_until = error_cooldown
    /\ now = RiskClockStep

(***************************************************************************)
(* C18: check() returns the first rule that applies, in this order: killed *)
(* (STOP), cooldown (STOP), error rate (STOP), daily loss (STOP), daily    *)
(* P&L below -0.8 x max_daily_loss (WARN), an asset position above the     *)
(* volatility-adjusted limit (WARN), total exposure above                  *)
(* max_total_exposure (WARN), otherwise OK.  This holds in enforce mode;   *)
(* in data-gather mode every rule but the kill switch is answered with OK. *)
(***************************************************************************)
RECURSIVE Exposure(_)
Exposure(token_ids) ==
    IF token_ids = << >> THEN 0
    ELSE Abs(positions[Head(token_ids)]) + Exposure(Tail(token_ids))

FirstRule(token_ids) ==
    IF killed THEN [status |-> "STOP", reason |-> "killed"]
    ELSE IF now < cooldown_until THEN [status |-> "STOP", reason |-> "cooldown"]
    ELSE IF ErrorsInLastMinute >= max_errors_per_minute
         THEN [status |-> "STOP", reason |-> "error_rate"]
    ELSE IF daily_pnl < -max_daily_loss
         THEN [status |-> "STOP", reason |-> "daily_loss"]
    ELSE IF 10 * daily_pnl < -8 * max_daily_loss
         THEN [status |-> "WARN", reason |-> "pnl_warn"]
    ELSE IF \E i \in DOMAIN token_ids :
               10 * Abs(positions[token_ids[i]]) > limit_mult * max_position
         THEN [status |-> "WARN", reason |-> "position"]
    ELSE IF Exposure(token_ids) > max_total_exposure
         THEN [status |-> "WARN", reason |-> "exposure"]
    ELSE OK

C18_Original ==
    [][\A t \in TokenLists : check(t) => ret' = FirstRule(t)]_vars

C18_FirstRule ==
    [][\A t \in TokenLists :
          check(t) => ret' = IF enforce \/ killed THEN FirstRule(t) ELSE OK]_vars

\* the last rule has decided: no asset is over its limit, the total is
C18_Witness ==
    /\ op = "check" /\ enforce
    /\ ret = [status |-> "WARN", reason |-> "exposure"]
    /\ \A a \in Assets : Abs(positions[a]) = 1

(***************************************************************************)
(* C19: once the reconnect attempts are used up the connection fails for   *)
(* good and raises on_max_retries; no reconnect attempt is made after that *)
(* until the caller resets the connection (connect() or disconnect(), that *)
(* is a start or a stop of the feed).  WebSocketConnection has no state    *)
(* field: FAILED is the connection not connected with its receive task    *)
(* ended inside _reconnect.                                                *)
(***************************************************************************)
FAILED == ws_task = "failed" /\ ~ws_connected

C19_FailedIsTerminal ==
    [][/\ (op' = "reconnect_fail" /\ reconnect_count = WS_RECONNECT_ATTEMPTS) =>
            /\ FAILED'
            /\ IF rest_running
               THEN data_source' = "rest" /\ state' = state
               ELSE state' = "ERROR"
       /\ (ws_task # "failed" /\ ws_task' = "failed") =>
            reconnect_count >= WS_RECONNECT_ATTEMPTS
       /\ (FAILED /\ op' \notin {"feed_start", "feed_stop"}) =>
            /\ FAILED'
            /\ op' \notin {"reconnect_ok", "reconnect_fail"}
            /\ reconnect_count' = reconnect_count
       /\ reconnect_count' <= WS_RECONNECT_ATTEMPTS]_vars

\* the health monitor runs on a feed whose connection has failed
C19_Witness ==
    /\ FAILED
    /\ state = "ERROR"
    /\ reconnect_count = WS_RECONNECT_ATTEMPTS
    /\ op = "health_monitor"

(***************************************************************************)
(* C20: a successful reconnect resets the attempt counter and has the      *)
(* asset set of the feed sent again on the new connection: the reconnect   *)
(* creates a _resubscribe task, and that task runs and puts the whole      *)
(* asset set on the socket, unless the connection is lost again first or   *)
(* the send itself fails.                                                  *)
(***************************************************************************)
SendFailed == op = "resubscribe" /\ subscribed # TokenSet(tokens)

C20_ResubscribedAfterReconnect ==
    /\ [][/\ (op' = "reconnect_ok") =>
                (/\ reconnect_count' = 0
                 /\ ws_connected'
                 /\ ((tokens # << >> /\ state = "RUNNING") =>
                        (resubscribes' = resubscribes + 1)))
          /\ (op' = "resubscribe") =>
                (/\ subscribed' \in {TokenSet(tokens), subscribed}
                 /\ tokens' = tokens)]_vars
    /\ (op = "reconnect_ok") ~>
          (subscribed = TokenSet(tokens) \/ ~ws_connected \/ SendFailed)

\* the asset set is on the socket again after a reconnect
C20_Witness ==
    /\ op = "resubscribe"
    /\ tokens # << >>
    /\ subscribed = TokenSet(tokens)
    /\ ws_connected /\ reconnect_count = 0
    /\ data_source = "websocket"

(***************************************************************************)
(* C21: every closure of the connection that is not a clean close made     *)
(* locally by disconnect() (the server closing it, or the connection being *)
(* lost) puts the connection into the reconnect procedure.  The receive    *)
(* loop leaves on ConnectionClosedOK without calling _reconnect, and that  *)
(* exception is raised for a clean close made by the server; disconnect()  *)
(* cancels the receive task before it closes the socket.                   *)
(***************************************************************************)
InReconnect == ws_task \in {"backoff", "failed"}

C21_ClosureReconnects ==
    [][(op' \in {"closed_ok", "connection_lost"}) => InReconnect']_vars

(***************************************************************************)
(* C22: disconnect() cancels the receive task, also when the task waits in *)
(* the reconnect backoff, closes the socket and leaves the connection      *)
(* disconnected; from then on no reconnect attempt is made and no frame is *)
(* handed to the message callback, until connect() is called again.        *)
(***************************************************************************)
DISCONNECTED == ws_task = "none" /\ ~ws_connected /\ ~ws_sock /\ ~should_run

C22_DisconnectIsQuiet ==
    [][/\ (op' = "feed_stop") => DISCONNECTED'
       /\ (DISCONNECTED /\ op' # "feed_start") =>
             (/\ DISCONNECTED'
              /\ op' \notin {"reconnect_ok", "reconnect_fail", "ws_message",
                              "connection_lost", "closed_ok"}
              /\ reconnect_count' = reconnect_count
              /\ Len(message_queue') <= Len(message_queue))]_vars

\* the feed was stopped while the receive task waited in its first backoff,
\* and time has passed since
C22_Witness ==
    /\ DISCONNECTED
    /\ state = "STOPPED"
    /\ reconnect_count = 1
    /\ op = "clock"

(***************************************************************************)
(* C23: during one outage reconnect attempt n (n = 1, 2, ...) is preceded  *)
(* by a delay of min(base * 2^(n-1), max_delay), and no more than the      *)
(* configured number of attempts is made.                                  *)
(***************************************************************************)
RECURSIVE Doubled(_)
Doubled(n) == IF n = 1 THEN WS_RECONNECT_BASE_DELAY ELSE 2 * Doubled(n - 1)

ExpectedDelay(n) ==
    IF Doubled(n) > WS_RECONNECT_MAX_DELAY THEN WS_RECONNECT_MAX_DELAY
    ELSE Doubled(n)

C23_BackoffDelays ==
    [][/\ (op' \in {"attempt_ok", "attempt_failed"}) =>
             (/\ reconnect_count + 1 <= DEFAULT_RECONNECT_ATTEMPTS
              /\ now' - now = ExpectedDelay(reconnect_count + 1)
              /\ reconnect_count' = IF op' = "attempt_ok" THEN 0
                                     ELSE reconnect_count + 1)
       /\ (op' = "outage") => reconnect_count' = 0
       /\ (op' = "retries_exhausted") =>
             reconnect_count = DEFAULT_RECONNECT_ATTEMPTS]_vars

\* the last attempt the cap allows has failed after a capped delay
C23_Witness ==
    /\ op = "attempt_failed"
    /\ ws_task = "backoff"
    /\ reconnect_count = DEFAULT_RECONNECT_ATTEMPTS
    /\ reconnect_delay(reconnect_count) = WS_RECONNECT_MAX_DELAY

(***************************************************************************)
(* C24: handing a frame to the feed never blocks the network task: the     *)
(* frame is enqueued without waiting on a queue of bounded capacity, and   *)
(* when the queue is full the frame is dropped and a drop counter is       *)
(* incremented.  The feed keeps no such counter: a dropped frame leaves    *)
(* every field of the feed, its store and its connection as it was.        *)
(***************************************************************************)
QueueFull == Len(message_queue) >= MaxQueue

C24_DropCounted ==
    [][(op' = "ws_message") =>
          (/\ Len(message_queue') <= MaxQueue
           /\ IF QueueFull
              THEN message_queue' = message_queue /\ allFeedVars' # allFeedVars
              ELSE message_queue' # message_queue)]_vars

(***************************************************************************)
(* C25: the frames received on one connection are applied to the store in  *)
(* the order they were received: a single worker drains the queue, and a   *)
(* frame is not applied before every earlier frame has been fully          *)
(* processed, its callback included.                                       *)
(***************************************************************************)
C25_OneFrameAtATime ==
    [][(op' = "worker_take") =>
          (/\ Workers(queue_tasks) = 1
           /\ processing = << >>
           /\ processing' = <<Head(message_queue)>>)]_vars

(***************************************************************************)
(* C26: stop() cancels every task the feed owns (queue worker, health      *)
(* monitor, WebSocket receive/reconnect task, REST poll task) and leaves   *)
(* the feed STOPPED with source none; a second stop() changes nothing.     *)
(***************************************************************************)
NoOwnedTask ==
    /\ ~Alive(queue_tasks)
    /\ ~Alive(health_tasks)
    /\ ws_task = "none"
    /\ ~rest_running

C26_StopCancelsAll ==
    [][(op' = "feed_stop") =>
          (/\ NoOwnedTask'
           /\ state' = "STOPPED"
           /\ data_source' = "none"
           /\ (op = "feed_stop") => (allFeedVars' = allFeedVars))]_vars

(***************************************************************************)
(* C27: start() tries the WebSocket connect and then the subscribe.  When  *)
(* either fails REST polling is started and the source is rest; when both  *)
(* succeed the source is websocket and start() does not start REST.  In    *)
(* both cases the feed is RUNNING and has its health monitor.              *)
(***************************************************************************)
WsStarted == ws_connected /\ subscribed # {}

C27_StartOutcome ==
    [][(op' = "feed_start") =>
          (/\ state' = "RUNNING"
           /\ health_tasks'.cur
           /\ IF WsStarted'
              THEN data_source' = "websocket" /\ rest_running' = rest_running
              ELSE data_source' = "rest" /\ rest_running')]_vars

C27_Witness ==
    /\ op = "feed_start"
    /\ ws_connected /\ subscribed = {}
    /\ data_source = "rest" /\ rest_running
    /\ state = "RUNNING" /\ health_tasks.cur

(***************************************************************************)
(* C28: a frame that is a JSON array of event objects is handled by        *)
(* processing each of its elements, one after the other, as a frame of     *)
(* its own.                                                                *)
(***************************************************************************)
RECURSIVE ApplyAll(_, _, _)
ApplyAll(st, items, t) ==
    IF items = << >> THEN st
    ELSE ApplyAll(ProcessedStore(st, Head(items), t), Tail(items), t)

C28_ListElementsProcessed ==
    [][(op' = "process_frame" /\ Head(message_queue).kind = "list") =>
          (store' = ApplyAll(store, Head(message_queue).items, now))]_vars

(***************************************************************************)
(* C29: an exception raised by a user callback (on_book_update,            *)
(* on_price_change, on_trade, on_state_change) is caught and logged: it    *)
(* never ends the WebSocket receive/reconnect task and never stops the     *)
(* queue worker.                                                           *)
(***************************************************************************)
C29_CallbackErrorsContained ==
    [][(op' \in {"callback_raised", "on_max_retries"}) =>
          (ws_task' # "crashed" /\ Alive(queue_tasks') = Alive(queue_tasks))]_vars

(***************************************************************************)
(* C30: when the quoter of one market in the pool fails, the pool marks    *)
(* that market inactive, so that it leaves the active set, and every other *)
(* market's quoter keeps running and stays in the active set.              *)
(***************************************************************************)
C30_FailureIsIsolated ==
    [][\A t \in PoolTokens :
          (op' = "run_market_failed" /\ pool_tasks[t] = "running"
                                     /\ pool_tasks'[t] = "failed") =>
             (/\ ~pool_markets'[t].is_active
              /\ t \notin active_markets'
              /\ \A u \in PoolTokens \ {t} :
                    /\ pool_tasks'[u] = pool_tasks[u]
                    /\ pool_markets'[u] = pool_markets[u]
                    /\ (u \in market_makers') = (u \in market_makers))]_vars

C30_Witness ==
    /\ op = "run_market_failed"
    /\ \E t \in markets, u \in markets :
          /\ pool_tasks[t] = "failed" /\ t \notin active_markets
          /\ pool_tasks[u] = "running" /\ u \in active_markets
                                       /\ u \in market_makers

(***************************************************************************)
(* C31: check_sequence(asset, seq) returns false exactly when the asset    *)
(* already has a last sequence number (not the sentinel) and seq is not    *)
(* last + 1.  In exactly that case the asset's gap counter goes up by one  *)
(* and seq becomes the last sequence; in every other case the gap counter  *)
(* is unchanged.  No other asset is touched.                               *)
(***************************************************************************)
IsGap(a, seq) ==
    seq # 0 /\ store[a].sequence # NoSequence /\ seq # store[a].sequence + 1

C31_CheckSequence ==
    [][(op' = "check_sequence") =>
          LET a == last_call'.asset
              seq == last_call'.seq
          IN  /\ last_call'.ret = ~IsGap(a, seq)
              /\ IF IsGap(a, seq)
                 THEN /\ store'[a].gap_count = store[a].gap_count + 1
                      /\ store'[a].sequence = seq
                 ELSE store'[a].gap_count = store[a].gap_count
              /\ \A b \in Assets \ {a} : store'[b] = store[b]]_vars

C31_Witness ==
    /\ op = "check_sequence"
    /\ ~last_call.ret
    /\ store[last_call.asset].gap_count = 1
    /\ store[last_call.asset].sequence = last_call.seq

(***************************************************************************)
(* C32: once FAST, the timer decays to NORMAL when fast_mode_duration has  *)
(* passed without a further FAST trigger, and it stays FAST as long as     *)
(* triggers keep arriving within that duration: no call takes it out of    *)
(* FAST before the duration is over, and once the duration is over the     *)
(* loop's next quiet price change takes it to NORMAL unless a trigger      *)
(* comes first.                                                            *)
(***************************************************************************)
FastExpired == timer_mode = "FAST" /\ now - last_fast_trigger > fast_mode_duration

C33_SerializedAndSpaced ==
    [][(op' = "wait_return") =>
          (/\ lock_queue # << >> => last_call'.caller = Head(lock_queue)
           /\ lock_queue # << >> => lock_queue' = Tail(lock_queue)
           /\ now - limiter_last >= 1000 \div calls_per_second
           /\ limiter_last' = now)]_vars

C33_Witness ==
    /\ op = "wait_return"
    /\ lock_queue # << >>
    /\ now - LimiterStart >= 2 * min_interval

(***************************************************************************)
(* C34: over any sequence of polls of an asset the trades poller hands to  *)
(* the callbacks only trades newer than the last trade it has seen, each   *)
(* trade at most once, the oldest first.                                   *)
(***************************************************************************)
Increasing(ids) == \A i, j \in DOMAIN ids : i < j => ids[i] < ids[j]

C34_NewOnceInOrder ==
    [][(op' = "poll_token") =>
          \A a \in Assets :
             /\ Increasing(delivered'[a])
             /\ Len(delivered'[a]) >= Len(delivered[a])
             /\ \A i \in DOMAIN delivered'[a] :
                   IF i <= Len(delivered[a])
                   THEN delivered'[a][i] = delivered[a][i]
                   ELSE delivered'[a][i] > last_trade_ids[a]]_vars

C34_Witness ==
    /\ op = "poll_token"
    /\ \E a \in Assets :
          /\ Len(delivered[a]) >= 3
          /\ Len(api_trades[a]) > PageSize
          /\ last_trade_ids[a] = Len(api_trades[a])

(***************************************************************************)
(* C35: scan_all caches each scanned pair's last signal by condition_id,   *)
(* so that get_quote_adjustment shifts the quotes only while the signal    *)
(* computed last for the token's pair is SKEW_QUOTES, and otherwise        *)
(* returns the base quotes unchanged.                                      *)
(***************************************************************************)
LastIsSkew(tok) ==
    \E c \in arb_pairs :
       /\ tok \in {Pairs[c].yes_token_id, Pairs[c].no_token_id}
       /\ last_computed[c].type = "SKEW_QUOTES"

C35_SkewFollowsLastSignal ==
    [][(op' = "get_quote_adjustment") =>
          ((last_call'.ret # last_call'.base) => LastIsSkew(last_call'.token_id))]_vars

(***************************************************************************)
(* C36: when one or both of the quoter's resting quotes have been filled   *)
(* while the mid stays within requote_threshold of last_mid and the risk   *)
(* and feed gates keep passing, the quoter places replacement quotes on a  *)
(* later tick: it does not stay with a filled quote in a slot for ever.    *)
(***************************************************************************)
FilledQuote ==
    \E id \in {bid_order, ask_order} \ {NoOrder} : orders[id].status = "MATCHED"

WaitingForRefill ==
    /\ pc = "loop" /\ running /\ ~shutdown_event
    /\ q_feed = "running" /\ feed_healthy
    /\ ~killed
    /\ Midpoint(book) # NoMid
    /\ ~MidMoved(Midpoint(book))
    /\ FilledQuote

C36_FilledQuotesReplaced == WaitingForRefill ~> ~WaitingForRefill

(***************************************************************************)
(* C37: between quoter ticks the quoter has at most one LIVE BUY order and *)
(* at most one LIVE SELL order on its asset, whatever the sequence of      *)
(* ticks, fills, failed placements, feed-health changes and requotes.      *)
(***************************************************************************)
LiveOnSide(side) == {i \in LiveQuotes(orders) : orders[i].side = side}

C37_OneLiveQuotePerSide ==
    /\ Cardinality(LiveOnSide("BUY")) <= 1
    /\ Cardinality(LiveOnSide("SELL")) <= 1


(***************************************************************************)
(* C38: while the pool is running, a market is reported in active_markets  *)
(* only if its quoter task is still running; a quoter that ended on its    *)
(* own without raising is no longer reported active.                       *)
(***************************************************************************)
C38_ActiveMeansRunning ==
    pool_running => \A t \in active_markets : pool_tasks[t] = "running"

(***************************************************************************)
(* C39: when the WebSocket connect fails during start() and the feed falls *)
(* back to REST, the feed later retries the WebSocket: with the server     *)
(* reachable again the connection comes back, and the feed does not stay   *)
(* on REST without a WebSocket for the rest of its life.                   *)
(***************************************************************************)
StartedWithoutWebSocket ==
    op = "feed_start" /\ state = "RUNNING" /\ data_source = "rest" /\ ~ws_connected

C39_FallbackRetriesWebSocket ==
    StartedWithoutWebSocket ~> (ws_connected \/ ws_task = "backoff" \/ state # "RUNNING")

(***************************************************************************)
(* C40: for any sequence of start(), stop(), reset() and WebSocket         *)
(* max-retry failures, start() from the ERROR state included, a feed never *)
(* has more than one queue-worker task and more than one health-monitor    *)
(* task alive at the same time.                                            *)
(***************************************************************************)
C40_OneWorkerOneMonitor ==
    /\ Workers(queue_tasks) <= 1
    /\ Workers(health_tasks) <= 1

====
